---- MODULE Spec2Model ----
(***************************************************************************)
(* Verification model of the AudioReactive renderer: the effect-parameter  *)
(* mapping (zoom, rotation, brightness, artistic-effect intensities), the  *)
(* temporal smoothing state kept by the GUI session, and the render loops  *)
(* that the GUI starts on worker threads.                                  *)
(*                                                                         *)
(* Numbers.  The program computes in IEEE doubles.  The model computes in  *)
(* exact rationals <<n, d>> (d > 0, lowest terms), so a value in the model *)
(* is the real number the program's expression denotes before rounding.    *)
(***************************************************************************)
EXTENDS Integers, Sequences, FiniteSets, TLC

VARIABLES
    \* ---- SoundReactiveGUI fields (gui_preview_pyqt5.py, __init__) ----
    prev_effect_intensities,  \* dict: effect name -> previous smoothed intensity
    effect_smoothing_factor,  \* rational in [0,1]
    \* ---- audio analysis results handed to the renderers ----
    bass_beat_frames,         \* set of spectrogram frame indices (bass beats)
    snare_hit_frames,         \* set of spectrogram frame indices (snare hits)
    \* ---- step-response harness for apply_temporal_smoothing ----
    stepZeros,                \* number of leading 0 inputs of the step sequence
    stepOut,                  \* outputs returned so far, one per frame fed
    \* ---- batch render loop (process_video_enhanced / process_image_to_video) ----
    renderer,                 \* which loop runs: "video_enhanced" | "image_to_video"
    call,                     \* the keyword arguments of the call
    interp,                   \* the resampled band curves (sub_bass_interp, ...)
    frame_idx,                \* loop counter
    frame_in,                 \* band values read for the last frame processed
    frame_params,             \* parameters computed for the last frame processed
    out_frames,               \* frame indices written to the writer, in order
    out_released,             \* out.release() has run
    \* ---- GUI session (SoundReactiveGUI) and its worker threads ----
    mode,                     \* self.mode: "video" | "image" | "folder"
    energy_curves,            \* self.energy_curves, over self.frame_times
    current_frame_idx,        \* self.current_frame_idx
    effect_checks,            \* self.effect_checks[e].isChecked()
    effect_weights,           \* self.<effect>_weights
    intensity_slider,         \* self.intensity_slider.value() / 100.0
    preview_mode,             \* which preview radio button is checked
    preview_params,           \* what get_effect_parameters last returned to update_preview
    jobs,                     \* the worker threads started so far
    gui_events,               \* GUI events handled so far
    \* ---- one call of VideoProcessor.apply_effects ----
    fx_call,                  \* the arguments of the call
    fx_pc,                    \* the stage the call stands at
    fx_frame,                 \* the local variable frame
    fx_original,              \* the local variable original_transformed
    fx_trace,                 \* the stage functions called so far, in order
    fx_result,                \* the frame returned
    \* ---- one call of an AudioAnalyzer curve function ----
    an_call,                  \* the function called and its arguments
    an_result,                 \* what it returned
    \* ---- ImageToVideoProcessor: construction and the frame loop ----
    i2v_args,                 \* constructor arguments: len(y), sr, fps
    i2v_self,                 \* <<fields set by __init__>> once constructed
    i2v_frames,               \* frame indices written to the writer, in order
    i2v_released,              \* out.release() has run
    \* ---- one render run: CLI main, GUI render thread, webcam session ----
    run_kind,                 \* which program runs: cli | gui_render | webcam
    run_args,                 \* its arguments, or the GUI state it starts from
    run_pc,                   \* the step it stands at
    run_steps,                \* the pipeline steps started so far, in order
    run_frames,               \* what was emitted for each frame so far
    run_errors,               \* indices of the frames whose effects raised
    run_files,                \* the files that exist
    run_merge,                \* <<exit code>> of the merge tool once it has run
    run_final,                 \* the final reports made to the user, in order
    \* ---- AudioAnalyzer.analyze_multiple_bands: the frequency masks ----
    bd_args,                  \* sr and n_fft of the spectrogram
    bd_masks,                  \* the bands processed so far, each with the bins of its mask
    \* ---- batch renderers: resampling a band curve to the output frames ----
    rs_call,                  \* the renderer, one band curve of the analysis, smoothness
    rs_interp,                \* <<the resampled curve>> once computed
    rs_reads,                  \* what the frame loop read and used, frame by frame
    \* ---- folder mode render (gui_preview_pyqt5.py) ----
    fd_job,                   \* the folder render: files listed, files that load, duration, fps
    fd_loaded,                \* <<loaded_images>> once read, by position in image_list
    fd_frames,                 \* what the loop chose for each frame written
    \* ---- the two smoothing sliders (gui_preview_pyqt5.py) ----
    effect_smoothing_slider,  \* position of the effect-smoothing slider, 0..100
    smoothness_slider,        \* position of the smoothness slider, 0..100
    slider_log,                \* each preview update: the slider positions and the factor used
    \* ---- webcam capture thread and GUI thread (gui_preview_pyqt5.py) ----
    webcam_cap,               \* self.webcam_cap: none, open or released
    is_recording,             \* self.is_recording
    recording_writer,         \* self.recording_writer: 0 for None, else the writer's number
    recording_frame_count,    \* self.recording_frame_count
    wc_writers,               \* every VideoWriter made: its state and the frames in its file
    wc_thread,                \* the capture thread: position and local values
    wc_gui,                   \* the GUI thread: position in the handler it runs
    wc_hist,                   \* what happened: calls on a dead writer, merges, stop_webcam
    \* ---- analysis threads against a parameter computation (gui_preview_pyqt5.py) ----
    ar_self,                  \* the window's analysis fields: energy_curves, frame_times, bass_beat_frames, snare_hit_frames
    ar_runs,                  \* the analysis threads started: their results and positions
    ar_reader,                \* the parameter computation in progress: position and values read
    ar_log,                    \* the values each finished parameter computation read
    \* ---- video render loops (video_processor.py, gui_preview_pyqt5.py) ----
    vl_video,                 \* the render: which loop, the frame count of the metadata, the frames the reader delivers
    vl_loop,                  \* the loop: position, frame_idx, length of the resampled curves
    vl_reads                  \* each read of the resampled curves: index and outcome

smoothVars == <<stepZeros, stepOut>>
guiVars == <<prev_effect_intensities, effect_smoothing_factor>>
analysisVars == <<bass_beat_frames, snare_hit_frames>>
batchVars == <<renderer, call, interp, frame_idx, frame_in, frame_params, out_frames,
               out_released>>
sessionVars == <<mode, energy_curves, current_frame_idx, effect_checks, effect_weights,
                 intensity_slider, preview_mode, preview_params, jobs, gui_events>>
effectsVars == <<fx_call, fx_pc, fx_frame, fx_original, fx_trace, fx_result>>
analyzerVars == <<an_call, an_result>>
imageVars == <<i2v_args, i2v_self, i2v_frames, i2v_released>>
runVars == <<run_kind, run_args, run_pc, run_steps, run_frames, run_errors, run_files, run_merge, run_final>>
bandVars == <<bd_args, bd_masks>>
resampleVars == <<rs_call, rs_interp, rs_reads>>
folderVars == <<fd_job, fd_loaded, fd_frames>>
sliderVars == <<effect_smoothing_slider, smoothness_slider, slider_log>>
webcamVars == <<webcam_cap, is_recording, recording_writer, recording_frame_count, wc_writers, wc_thread, wc_gui, wc_hist>>
raceVars == <<ar_self, ar_runs, ar_reader, ar_log>>
loopVars == <<vl_video, vl_loop, vl_reads>>
\* The variables of the specifications further down, which the ones above
\* leave alone.
laterVars == <<effectsVars, analyzerVars, imageVars, runVars, bandVars, resampleVars, folderVars, sliderVars, webcamVars, raceVars, loopVars>>
rendererVars == <<guiVars, analysisVars, smoothVars, batchVars, sessionVars>>
vars == <<rendererVars, laterVars>>
\* What each of the later specifications leaves alone.
exceptEffects == <<rendererVars, analyzerVars, imageVars, runVars, bandVars, resampleVars, folderVars, sliderVars, webcamVars, raceVars, loopVars>>
exceptAnalyzer == <<rendererVars, effectsVars, imageVars, runVars, bandVars, resampleVars, folderVars, sliderVars, webcamVars, raceVars, loopVars>>
exceptImage == <<rendererVars, effectsVars, analyzerVars, runVars, bandVars, resampleVars, folderVars, sliderVars, webcamVars, raceVars, loopVars>>
exceptRun == <<rendererVars, effectsVars, analyzerVars, imageVars, bandVars, resampleVars, folderVars, sliderVars, webcamVars, raceVars, loopVars>>
exceptBand == <<rendererVars, effectsVars, analyzerVars, imageVars, runVars, resampleVars, folderVars, sliderVars, webcamVars, raceVars, loopVars>>
exceptResample == <<rendererVars, effectsVars, analyzerVars, imageVars, runVars, bandVars, folderVars, sliderVars, webcamVars, raceVars, loopVars>>
exceptFolder == <<rendererVars, effectsVars, analyzerVars, imageVars, runVars, bandVars, resampleVars, sliderVars, webcamVars, raceVars, loopVars>>
exceptSlider == <<rendererVars, effectsVars, analyzerVars, imageVars, runVars, bandVars, resampleVars, folderVars, webcamVars, raceVars, loopVars>>
exceptWebcam == <<rendererVars, effectsVars, analyzerVars, imageVars, runVars, bandVars, resampleVars, folderVars, sliderVars, raceVars, loopVars>>
exceptRace == <<rendererVars, effectsVars, analyzerVars, imageVars, runVars, bandVars, resampleVars, folderVars, sliderVars, webcamVars, loopVars>>
exceptLoop == <<rendererVars, effectsVars, analyzerVars, imageVars, runVars, bandVars, resampleVars, folderVars, sliderVars, webcamVars, raceVars>>
exceptSliderGui == <<analysisVars, smoothVars, batchVars, sessionVars, effectsVars, analyzerVars, imageVars, runVars, bandVars, resampleVars, folderVars, webcamVars, raceVars, loopVars>>

-----------------------------------------------------------------------------
(* Exact rational arithmetic                                               *)

Abs(x) == IF x < 0 THEN -x ELSE x

RECURSIVE GCD(_, _)
GCD(a, b) == IF b = 0 THEN a ELSE GCD(b, a % b)

LCM(a, b) == (a \div GCD(a, b)) * b

\* n/d in lowest terms, d > 0, given g = gcd(|n|, d)
Lowest(n, d, g) == <<n \div g, d \div g>>

Rat(n, d) == Lowest(n, d, GCD(Abs(n), d))

Zero == <<0, 1>>
One == <<1, 1>>

\* Products of components below this size stay inside the machine integers.
Small(p, q) ==
    /\ Abs(p[1]) < 30000 /\ p[2] < 30000
    /\ Abs(q[1]) < 30000 /\ q[2] < 30000

\* A common denominator of p and q: the product when it is safe, the least
\* common multiple otherwise.
CommonDenominator(p, q) ==
    IF p[2] = q[2] THEN p[2]
    ELSE IF Small(p, q) THEN p[2] * q[2]
    ELSE LCM(p[2], q[2])

AddOver(p, q, l) == Rat(p[1] * (l \div p[2]) + q[1] * (l \div q[2]), l)

RAdd(p, q) == AddOver(p, q, CommonDenominator(p, q))

RNeg(p) == <<-p[1], p[2]>>

RSub(p, q) == RAdd(p, RNeg(q))

\* p * q with the cross factors g1 | (p[1], q[2]) and g2 | (q[1], p[2])
\* cancelled before multiplying
MulCancelled(p, q, g1, g2) ==
    Rat((p[1] \div g1) * (q[1] \div g2), (p[2] \div g2) * (q[2] \div g1))

RMul(p, q) ==
    IF Small(p, q)
    THEN MulCancelled(p, q, 1, 1)
    ELSE MulCancelled(p, q, GCD(Abs(p[1]), q[2]), GCD(Abs(q[1]), p[2]))

\* p / q for q > 0
RDiv(p, q) == RMul(p, <<q[2], q[1]>>)

LeOver(p, q, l) == p[1] * (l \div p[2]) <= q[1] * (l \div q[2])

RLe(p, q) == LeOver(p, q, CommonDenominator(p, q))

RLt(p, q) == RLe(p, q) /\ p # q

RAbs(p) == <<Abs(p[1]), p[2]>>

\* np.clip(x, lo, hi)
Clip(x, lo, hi) == IF RLt(x, lo) THEN lo ELSE IF RLt(hi, x) THEN hi ELSE x

RECURSIVE RPow(_, _)
RPow(p, n) == IF n = 0 THEN One ELSE RMul(p, RPow(p, n - 1))

InUnit(x) == RLe(Zero, x) /\ RLe(x, One)

-----------------------------------------------------------------------------
(* Temporal smoothing (SoundReactiveGUI.apply_temporal_smoothing)          *)

\* self.prev_effect_intensities[effect_name] = v; return v
StoreIntensity(prev, effect_name, v) ==
    [out  |-> v,
     prev |-> IF effect_name \in DOMAIN prev
              THEN [prev EXCEPT ![effect_name] = v]
              ELSE prev @@ (effect_name :> v)]

\* alpha * current_intensity + (1.0 - alpha) * previous
Blend(alpha, current_intensity, previous) ==
    RAdd(RMul(alpha, current_intensity), RMul(RSub(One, alpha), previous))

\* Mutation: alpha taken to be the smoothing factor itself (weights swapped).
ApplyTemporalSmoothing_SwappedAlpha(prev, factor, effect_name, current_intensity) ==
    IF effect_name \notin DOMAIN prev
    THEN StoreIntensity(prev, effect_name, current_intensity)
    ELSE StoreIntensity(prev, effect_name,
                        Blend(factor, current_intensity, prev[effect_name]))

\* Mutation: the new sample is added with weight 1 instead of alpha.
ApplyTemporalSmoothing_Overshoot(prev, factor, effect_name, current_intensity) ==
    IF effect_name \notin DOMAIN prev
    THEN StoreIntensity(prev, effect_name, current_intensity)
    ELSE StoreIntensity(prev, effect_name,
                        RAdd(current_intensity,
                             RMul(factor, prev[effect_name])))

\* The value apply_temporal_smoothing returns and the dict it leaves behind.
ApplyTemporalSmoothing(prev, factor, effect_name, current_intensity) ==
    IF effect_name \notin DOMAIN prev
    THEN StoreIntensity(prev, effect_name, current_intensity)
    ELSE StoreIntensity(prev, effect_name,
                        Blend(RSub(One, factor), current_intensity,
                              prev[effect_name]))

-----------------------------------------------------------------------------
(* SpecStep: the step sequence 0,..,0,1,1,1,.. fed to                      *)
(* apply_temporal_smoothing for one effect, for every smoothing factor of  *)
(* the slider grid.                                                        *)

FactorGrid == 4     \* smoothing factors k/FactorGrid, k = 0..FactorGrid
MaxZeros == 3       \* the step sequence starts with 1..MaxZeros zeros
MaxOnes == 8        \* and goes on with MaxOnes ones

SmoothingFactors == {Rat(k, FactorGrid) : k \in 0..FactorGrid}

EmptyDict == [x \in {} |-> Zero]

StepInput(i) == IF i <= stepZeros THEN Zero ELSE One

\* The variables a specification does not use stay at these values.
IdleAnalysis == bass_beat_frames = {} /\ snare_hit_frames = {}
IdleStep == stepZeros = 0 /\ stepOut = <<>>
IdleSession ==
    /\ mode = "video" /\ energy_curves = <<>> /\ current_frame_idx = 0
    /\ effect_checks = <<>> /\ effect_weights = <<>>
    /\ intensity_slider = Rat(70, 100) /\ preview_mode = "original"
    /\ preview_params = <<>> /\ jobs = <<>> /\ gui_events = 0
IdleBatch ==
    /\ renderer = "none" /\ call = <<>> /\ interp = <<>>
    /\ frame_idx = 0 /\ frame_in = <<>>
    /\ frame_params = <<>> /\ out_frames = <<>> /\ out_released = FALSE

IdleEffects ==
    /\ fx_call = <<>> /\ fx_pc = 0 /\ fx_frame = <<>> /\ fx_original = <<>>
    /\ fx_trace = <<>> /\ fx_result = <<>>
IdleAnalyzer ==
    an_call = <<>> /\ an_result = <<>>
IdleImage ==
    i2v_args = <<>> /\ i2v_self = <<>> /\ i2v_frames = <<>> /\ i2v_released = <<>>
IdleRun ==
    run_kind = <<>> /\ run_args = <<>> /\ run_pc = <<>> /\ run_steps = <<>> /\ run_frames = <<>> /\ run_errors = <<>> /\ run_files = <<>> /\ run_merge = <<>> /\ run_final = <<>>
IdleBand ==
    bd_args = <<>> /\ bd_masks = <<>>
IdleResample ==
    rs_call = <<>> /\ rs_interp = <<>> /\ rs_reads = <<>>
IdleFolder ==
    fd_job = <<>> /\ fd_loaded = <<>> /\ fd_frames = <<>>
IdleSlider ==
    effect_smoothing_slider = <<>> /\ smoothness_slider = <<>> /\ slider_log = <<>>
IdleWebcam ==
    webcam_cap = <<>> /\ is_recording = <<>> /\ recording_writer = <<>> /\ recording_frame_count = <<>> /\ wc_writers = <<>> /\ wc_thread = <<>> /\ wc_gui = <<>> /\ wc_hist = <<>>
IdleRace ==
    ar_self = <<>> /\ ar_runs = <<>> /\ ar_reader = <<>> /\ ar_log = <<>>
IdleLoop ==
    vl_video = <<>> /\ vl_loop = <<>> /\ vl_reads = <<>>
IdleLater == IdleEffects /\ IdleAnalyzer /\ IdleImage /\ IdleRun /\ IdleBand /\ IdleResample /\ IdleFolder /\ IdleSlider /\ IdleWebcam /\ IdleRace /\ IdleLoop

InitStep ==
    /\ prev_effect_intensities = EmptyDict
    /\ effect_smoothing_factor \in SmoothingFactors
    /\ stepZeros \in 1..MaxZeros
    /\ stepOut = <<>>
    /\ IdleAnalysis /\ IdleBatch /\ IdleSession /\ IdleLater

FeedStep ==
    /\ Len(stepOut) < stepZeros + MaxOnes
    /\ \E r \in {ApplyTemporalSmoothing(prev_effect_intensities,
                                         effect_smoothing_factor, "pixel_sort",
                                         StepInput(Len(stepOut) + 1))} :
          /\ prev_effect_intensities' = r.prev
          /\ stepOut' = Append(stepOut, r.out)
    /\ UNCHANGED <<effect_smoothing_factor, stepZeros, analysisVars, laterVars, batchVars,
                   sessionVars>>

NextStep == FeedStep

SpecStep == InitStep /\ [][NextStep]_vars

\* Frames fed after the step, and the output of the n-th of them.
OnesFed == IF Len(stepOut) > stepZeros THEN Len(stepOut) - stepZeros ELSE 0
OutAfterStep(n) == stepOut[stepZeros + n]

\* C6 (as stated): for EVERY smoothing factor in [0,1] the output strictly
\* increases on every frame after the step and never exceeds 1.
C6_StrictIncreaseEveryFactor ==
    \A n \in 1..OnesFed :
        /\ RLt(stepOut[stepZeros + n - 1], OutAfterStep(n))
        /\ RLe(OutAfterStep(n), One)

\* C6 (amended): the outputs before the step are 0; n frames after the step
\* the distance of the output from 1 is exactly factor^n, a quantity fixed by
\* the smoothing factor and n alone, so the output never exceeds 1; for a
\* factor strictly between 0 and 1 the output strictly increases on every
\* frame after the step and stays below 1; with factor 0 it is 1 from the first
\* frame after the step, with factor 1 it stays at 0.
C6_StepResponse ==
    /\ \A i \in 1..Len(stepOut) : i <= stepZeros => stepOut[i] = Zero
    /\ \A n \in 1..OnesFed :
        /\ RSub(One, OutAfterStep(n)) = RPow(effect_smoothing_factor, n)
        /\ RLe(OutAfterStep(n), One)
        /\ (RLt(Zero, effect_smoothing_factor) /\ RLt(effect_smoothing_factor, One))
              => /\ RLt(stepOut[stepZeros + n - 1], OutAfterStep(n))
                 /\ RLt(OutAfterStep(n), One)
        /\ effect_smoothing_factor = Zero => OutAfterStep(n) = One
        /\ effect_smoothing_factor = One => OutAfterStep(n) = Zero

\* C6 witness: factor 1/2, three frames after the step, output within 1/8 of 1.
C6_Witness ==
    /\ effect_smoothing_factor = Rat(1, 2)
    /\ OnesFed >= 3
    /\ RLe(RSub(One, OutAfterStep(OnesFed)), Rat(1, 8))
    /\ RLt(OutAfterStep(OnesFed), One)

-----------------------------------------------------------------------------
(* Per-frame parameter mapping of the batch renderers                      *)
(* (VideoProcessor.process_video_enhanced and                              *)
(*  ImageToVideoProcessor.process_image_to_video compute zoom, rotation    *)
(*  and brightness with the same expressions).                             *)

\* frame_times[k] = k * hop_length / sr (librosa.frames_to_time); the model
\* takes hop_length = 512 at sr = 10240, one spectrogram frame every 1/20 s.
Hop == Rat(1, 20)
FrameTime(k) == RMul(Rat(k, 1), Hop)

\* frame_times[bass_beat_frames]
OnsetTimes(frames) == {FrameTime(k) : k \in frames}

RMinSet(S) == CHOOSE m \in S : \A x \in S : RLe(m, x)

\* np.min(np.abs(times - current_time)), times non-empty
NearestDistance(times, current_time) ==
    RMinSet({RAbs(RSub(bt, current_time)) : bt \in times})

\* The guard added to a weight sum before dividing.  The source adds 1e-8;
\* the model adds 1e-3, which keeps every intermediate value inside TLC's
\* 32-bit integers.  Its role is the same: a positive addend, far below the
\* weight sums used, that keeps the divisor non-zero.
EPS == Rat(1, 1000)

\* np.clip((v1*w1 + v2*w2) / (w1 + w2 + 1e-8), 0, 1)
WeightedPair(v1, w1, v2, w2) ==
    Clip(RDiv(RAdd(RMul(v1, w1), RMul(v2, w2)), RAdd(RAdd(w1, w2), EPS)),
         Zero, One)

\* Mutation: the blend weights swapped, s*1 + (1-s)*intensity.
SensitivityBlend_Swapped(intensity_sensitivity, intensity) ==
    RAdd(intensity_sensitivity,
         RMul(RSub(One, intensity_sensitivity), intensity))

\* (1.0 - intensity_sensitivity) + (intensity_sensitivity * intensity)
SensitivityBlend(intensity_sensitivity, intensity) ==
    RAdd(RSub(One, intensity_sensitivity),
         RMul(intensity_sensitivity, intensity))

\* Mutation: with beat-triggered zoom on and no beat detected no frame zooms.
BatchZoomBranch_IdleWithoutBeats(c, beat_times, current_time) ==
    IF c.beat_triggered_zoom
    THEN IF beat_times # {}
            /\ RLe(NearestDistance(beat_times, current_time), c.beat_window)
         THEN "beat" ELSE "idle"
    ELSE "continuous"

\* Which branch of the zoom computation a frame at current_time takes.
BatchZoomBranch(c, beat_times, current_time) ==
    IF c.beat_triggered_zoom /\ beat_times # {}
    THEN IF RLe(NearestDistance(beat_times, current_time), c.beat_window)
         THEN "beat" ELSE "idle"
    ELSE "continuous"

\* zoom_intensity before the sensitivity blend ("beat" and "continuous").
BatchZoomRaw(c, b, beat_times, current_time) ==
    IF BatchZoomBranch(c, beat_times, current_time) = "beat"
    THEN LET nearest_beat_distance == NearestDistance(beat_times, current_time)
             beat_proximity ==
                 Clip(RSub(One, RDiv(nearest_beat_distance, c.beat_window)),
                      Zero, One)
             bass_intensity ==
                 WeightedPair(b.sub_bass, c.sub_bass_zoom, b.bass, c.bass_zoom)
         IN  RAdd(RMul(beat_proximity, Rat(7, 10)),
                  RMul(bass_intensity, Rat(3, 10)))
    ELSE WeightedPair(b.sub_bass, c.sub_bass_zoom, b.bass, c.bass_zoom)

\* Mutation: outside the beat window the continuous formula is used.
BatchZoom_NoIdle(c, b, beat_times, current_time) ==
    RAdd(One, RMul(RSub(c.zoom_factor, One),
                   SensitivityBlend(c.intensity_sensitivity,
                       WeightedPair(b.sub_bass, c.sub_bass_zoom,
                                    b.bass, c.bass_zoom))))

BatchZoom(c, b, beat_times, current_time) ==
    IF BatchZoomBranch(c, beat_times, current_time) = "idle"
    THEN One
    ELSE RAdd(One, RMul(RSub(c.zoom_factor, One),
                        SensitivityBlend(c.intensity_sensitivity,
                            BatchZoomRaw(c, b, beat_times, current_time))))

BatchRotationRaw(c, b) ==
    WeightedPair(b.treble, c.treble_rotation,
                 b.high_treble, c.high_treble_rotation)

BatchRotation(c, b) ==
    RMul(c.rotation_angle,
         SensitivityBlend(c.intensity_sensitivity, BatchRotationRaw(c, b)))

\* brightness before the snare flash
BatchBrightnessBase(c, b) ==
    IF c.enable_brightness
    THEN RAdd(One, RMul(RAdd(b.bass, b.mid), Rat(3, 10)))
    ELSE One

SnareFlashActive(c, snare_times, current_time) ==
    /\ c.snare_triggered_flash
    /\ snare_times # {}
    /\ RLe(NearestDistance(snare_times, current_time), c.snare_window)

\* Mutation: the clip to [1.0, 2.0] after the flash is left out.
BatchBrightness_NoClip(c, b, snare_times, current_time) ==
    IF SnareFlashActive(c, snare_times, current_time)
    THEN LET snare_proximity ==
                 Clip(RSub(One, RDiv(NearestDistance(snare_times, current_time),
                                     c.snare_window)), Zero, One)
             flash_intensity == RMul(snare_proximity, Rat(8, 10))
         IN  RAdd(BatchBrightnessBase(c, b), flash_intensity)
    ELSE BatchBrightnessBase(c, b)

BatchBrightness(c, b, snare_times, current_time) ==
    IF SnareFlashActive(c, snare_times, current_time)
    THEN LET snare_proximity ==
                 Clip(RSub(One, RDiv(NearestDistance(snare_times, current_time),
                                     c.snare_window)), Zero, One)
             flash_intensity == RMul(snare_proximity, Rat(8, 10))
         IN  Clip(RAdd(BatchBrightnessBase(c, b), flash_intensity),
                  One, Rat(2, 1))
    ELSE BatchBrightnessBase(c, b)

\* The parameters one loop iteration hands to apply_effects.
BatchFrameParams(c, b, beats, snares, idx) ==
    LET current_time == RDiv(Rat(idx, 1), c.fps)
    IN  [zoom       |-> BatchZoom(c, b, OnsetTimes(beats), current_time),
         rotation   |-> BatchRotation(c, b),
         brightness |-> BatchBrightness(c, b, OnsetTimes(snares), current_time)]

-----------------------------------------------------------------------------
(* SpecBatch: one batch render job, frame by frame.                        *)

SensGrid == 2       \* intensity_sensitivity in {k/SensGrid : k = 0..SensGrid}
BandGrid == 2       \* band values in {k/BandGrid : k = 0..BandGrid}
MaxFrames == 4      \* frames a batch job processes at most

\* Output frame rate of the modelled job: a frame every 1/5 s.
ModelFps == Rat(5, 1)

Sensitivities == {Rat(k, SensGrid) : k \in 0..SensGrid}
BandLevels == {Rat(k, BandGrid) : k \in 0..BandGrid}
ZoomFactors == {Rat(13, 10), Rat(2, 1)}

\* Onset sets the analysis may hand over (spectrogram frame indices of the
\* bass beats and of the snare hits).
OnsetChoices ==
    {[beats |-> {},      snares |-> {}],
     [beats |-> {},      snares |-> {7}],
     [beats |-> {1},     snares |-> {7}],
     [beats |-> {1, 12}, snares |-> {}]}

\* Level n of the band grid, cyclically.
Level(n) == Rat(n % (BandGrid + 1), BandGrid)

\* The resampled band curves a job reads, one entry per output frame.  They
\* are computed before the loop from normalized curves by linear interpolation
\* and a moving average, so every entry lies in [0, 1].  The model draws them
\* from a family of level patterns with two phases p, q: across the family
\* every pair of levels of (bass, mid), (sub_bass, bass) and
\* (treble, high_treble) occurs at every frame.  Silence is the all-zero set.
PatternCurves(p, q) ==
    [sub_bass    |-> [i \in 1..MaxFrames |-> Level(i + q)],
     bass        |-> [i \in 1..MaxFrames |-> Level(i + p)],
     mid         |-> [i \in 1..MaxFrames |-> Level(i + q)],
     treble      |-> [i \in 1..MaxFrames |-> Level(i + q)],
     high_treble |-> [i \in 1..MaxFrames |-> Level(i + p)]]

SilentCurves ==
    [band \in {"sub_bass", "bass", "mid", "treble", "high_treble"} |->
        [i \in 1..MaxFrames |-> Zero]]

ResampledCurves ==
    {PatternCurves(p, q) : p \in 0..BandGrid, q \in 0..BandGrid} \cup {SilentCurves}

\* sub_bass_val = sub_bass_interp[frame_idx], ... (0-based in the source)
BandsAt(curves, idx) ==
    [sub_bass    |-> curves.sub_bass[idx + 1],
     bass        |-> curves.bass[idx + 1],
     mid         |-> curves.mid[idx + 1],
     treble      |-> curves.treble[idx + 1],
     high_treble |-> curves.high_treble[idx + 1]]

\* The call's keyword arguments; the weights and windows are the defaults.
Calls ==
    [zoom_factor : ZoomFactors, rotation_angle : {Rat(5, 1)},
     sub_bass_zoom : {Rat(2, 10)}, bass_zoom : {One},
     treble_rotation : {One}, high_treble_rotation : {Rat(1, 2)},
     enable_brightness : BOOLEAN,
     beat_triggered_zoom : BOOLEAN, beat_window : {Rat(2, 10)},
     snare_triggered_flash : BOOLEAN, snare_window : {Rat(15, 100)},
     intensity_sensitivity : Sensitivities,
     fps : {ModelFps}]

IdleGui ==
    /\ prev_effect_intensities = EmptyDict /\ effect_smoothing_factor = Rat(3, 10)
    /\ IdleSession
IdleRenderer == IdleGui /\ IdleAnalysis /\ IdleStep /\ IdleBatch

InitBatch ==
    /\ renderer \in {"video_enhanced", "image_to_video"}
    /\ call \in Calls
    /\ \E onsets \in OnsetChoices :
            /\ bass_beat_frames = onsets.beats
            /\ snare_hit_frames = onsets.snares
    /\ interp \in ResampledCurves
    /\ frame_idx = 0
    /\ frame_in = <<>>
    /\ frame_params = <<>>
    /\ out_frames = <<>>
    /\ out_released = FALSE
    /\ IdleGui /\ IdleStep /\ IdleLater

\* One iteration of either loop: compute the parameters, apply the effects,
\* out.write(frame), advance.
RenderFrame ==
    /\ frame_in' = BandsAt(interp, frame_idx)
    /\ frame_params' = BatchFrameParams(call, BandsAt(interp, frame_idx),
                                        bass_beat_frames, snare_hit_frames,
                                        frame_idx)
    /\ out_frames' = Append(out_frames, frame_idx)
    /\ frame_idx' = frame_idx + 1
    /\ UNCHANGED <<renderer, call, interp, out_released, analysisVars, laterVars, guiVars,
                   smoothVars, sessionVars>>

\* process_video_enhanced: while True: ret, frame = self.cap.read() ... (ret true)
VideoEnhancedFrame ==
    /\ renderer = "video_enhanced"
    /\ ~out_released
    /\ frame_idx < MaxFrames
    /\ RenderFrame

\* process_video_enhanced: cap.read() returns ret = False; break; out.release()
VideoEnhancedEnd ==
    /\ renderer = "video_enhanced"
    /\ ~out_released
    /\ out_released' = TRUE
    /\ UNCHANGED <<renderer, call, interp, frame_idx, frame_in, frame_params,
                   out_frames, analysisVars, laterVars, guiVars, smoothVars, sessionVars>>

\* process_image_to_video: for frame_idx in range(self.total_frames)
ImageToVideoFrame ==
    /\ renderer = "image_to_video"
    /\ ~out_released
    /\ frame_idx < MaxFrames
    /\ RenderFrame

\* process_image_to_video: the loop is exhausted; out.release()
ImageToVideoEnd ==
    /\ renderer = "image_to_video"
    /\ ~out_released
    /\ frame_idx = MaxFrames
    /\ out_released' = TRUE
    /\ UNCHANGED <<renderer, call, interp, frame_idx, frame_in, frame_params,
                   out_frames, analysisVars, laterVars, guiVars, smoothVars, sessionVars>>

NextBatch ==
    \/ VideoEnhancedFrame
    \/ VideoEnhancedEnd
    \/ ImageToVideoFrame
    \/ ImageToVideoEnd

SpecBatch == InitBatch /\ [][NextBatch]_vars

-----------------------------------------------------------------------------
(* Claims about the per-frame parameters (SpecBatch)                       *)

FrameDone == frame_params # <<>>
\* current_time of the frame whose parameters are in frame_params
LastTime == RDiv(Rat(frame_idx - 1, 1), call.fps)
WithSens(c, s) == [c EXCEPT !.intensity_sensitivity = s]
LastZoomBranch == BatchZoomBranch(call, OnsetTimes(bass_beat_frames), LastTime)
LastZoomRaw == BatchZoomRaw(call, frame_in, OnsetTimes(bass_beat_frames), LastTime)
LastRotationRaw == BatchRotationRaw(call, frame_in)
ZoomWithSens(s) ==
    BatchZoom(WithSens(call, s), frame_in, OnsetTimes(bass_beat_frames), LastTime)
RotationWithSens(s) == BatchRotation(WithSens(call, s), frame_in)

\* The last frame recomputed at every sensitivity s: the blended zoom and
\* rotation intensities (zi, ri) and the zoom and rotation that result.
SensTable ==
    {[s    |-> s,
      zi   |-> SensitivityBlend(s, LastZoomRaw),
      ri   |-> SensitivityBlend(s, LastRotationRaw),
      zoom |-> ZoomWithSens(s),
      rot  |-> RotationWithSens(s)] : s \in Sensitivities}

\* C8 (as stated): for a fixed band energy mix x in (0,1] and sensitivities
\* s1 <= s2, the sensitivity-blended zoom and rotation intensities with s2 are
\* not smaller than with s1, and so zoom and rotation do not decrease.
C8_SensitivityNeverDecreases ==
    FrameDone =>
        \A zx \in {LastZoomRaw}, rx \in {LastRotationRaw}, tab \in {SensTable} :
            \A lo \in tab, hi \in tab :
                RLe(lo.s, hi.s) =>
                    /\ (LastZoomBranch # "idle" /\ RLt(Zero, zx)) =>
                          RLe(lo.zi, hi.zi) /\ RLe(lo.zoom, hi.zoom)
                    /\ RLt(Zero, rx) =>
                          RLe(lo.ri, hi.ri) /\ RLe(lo.rot, hi.rot)

\* C8 (amended): for a fixed band energy mix x in (0,1] and sensitivities
\* s1 <= s2, the sensitivity-blended zoom and rotation intensities with s2 are
\* not LARGER than with s1 (strictly smaller when x < 1 and s1 < s2, equal when
\* x = 1), and so zoom and rotation do not increase.
C8_SensitivityNeverIncreases ==
    FrameDone =>
        \A zx \in {LastZoomRaw}, rx \in {LastRotationRaw}, tab \in {SensTable} :
            \A lo \in tab, hi \in tab :
                RLe(lo.s, hi.s) =>
                    /\ (LastZoomBranch # "idle" /\ RLt(Zero, zx)) =>
                          /\ RLe(hi.zi, lo.zi)
                          /\ (RLt(zx, One) /\ lo.s # hi.s) => RLt(hi.zi, lo.zi)
                          /\ zx = One => hi.zi = lo.zi
                          /\ RLe(hi.zoom, lo.zoom)
                    /\ RLt(Zero, rx) =>
                          /\ RLe(hi.ri, lo.ri)
                          /\ (RLt(rx, One) /\ lo.s # hi.s) => RLt(hi.ri, lo.ri)
                          /\ rx = One => hi.ri = lo.ri
                          /\ RLe(hi.rot, lo.rot)

\* C8 witness: a frame whose zoom mix lies strictly between 0 and 1 and whose
\* zoom at sensitivity 1 is strictly below its zoom at sensitivity 0.
C8_Witness ==
    /\ FrameDone
    /\ LastZoomBranch # "idle"
    /\ RLt(Zero, LastZoomRaw) /\ RLt(LastZoomRaw, One)
    /\ RLt(Zero, LastRotationRaw) /\ RLt(LastRotationRaw, One)
    /\ RLt(ZoomWithSens(One), ZoomWithSens(Zero))
    /\ frame_params.zoom = ZoomWithSens(call.intensity_sensitivity)

\* Every onset lies farther than beat_window from the last frame's time.
OutsideBeatWindow ==
    \A k \in bass_beat_frames :
        RLt(call.beat_window, RAbs(RSub(FrameTime(k), LastTime)))

\* C9: in beat-triggered mode with at least one bass-beat onset, a frame whose
\* time is farther than beat_window from every onset gets zoom exactly 1.0.
C9_ZoomOneOutsideBeatWindow ==
    (FrameDone /\ call.beat_triggered_zoom /\ bass_beat_frames # {}
        /\ OutsideBeatWindow)
    => frame_params.zoom = One

\* C9 witness: such a frame, with bass energy, zoom factor above 1 and
\* sensitivity below 1, so the continuous formula would have zoomed.
C9_Witness ==
    /\ FrameDone /\ call.beat_triggered_zoom /\ bass_beat_frames # {}
    /\ OutsideBeatWindow
    /\ RLt(Zero, frame_in.bass)
    /\ RLt(One, call.zoom_factor)
    /\ RLt(call.intensity_sensitivity, One)
    /\ frame_params.zoom = One

BrightnessWithoutFlash ==
    BatchBrightness([call EXCEPT !.snare_triggered_flash = FALSE], frame_in,
                    OnsetTimes(snare_hit_frames), LastTime)

InsideSnareWindow ==
    \E k \in snare_hit_frames :
        RLe(RAbs(RSub(FrameTime(k), LastTime)), call.snare_window)

\* C10: for every frame and every combination of the brightness and snare-flash
\* toggles the brightness multiplier lies in [1.0, 2.0], and a frame inside a
\* snare window never gets less brightness than it would without the flash.
C10_BrightnessRange ==
    FrameDone =>
        /\ RLe(One, frame_params.brightness)
        /\ RLe(frame_params.brightness, Rat(2, 1))
        /\ InsideSnareWindow => RLe(BrightnessWithoutFlash, frame_params.brightness)

\* C10 witness: a flashed frame whose sum of pulse and flash exceeds 2 and is
\* capped at 2, above the brightness it has without the flash.
C10_Witness ==
    /\ FrameDone
    /\ call.enable_brightness /\ call.snare_triggered_flash
    /\ InsideSnareWindow
    /\ frame_params.brightness = Rat(2, 1)
    /\ RLt(BrightnessWithoutFlash, frame_params.brightness)
    /\ RLt(One, BrightnessWithoutFlash)

-----------------------------------------------------------------------------
(* Per-frame parameter mapping of the GUI session                          *)
(* (SoundReactiveGUI.get_effect_parameters, and the same expressions       *)
(*  inlined in SoundReactiveGUI._process_video_with_progress).             *)

EffectNames ==
    <<"pixel_sort", "kaleidoscope", "wave_distortion", "vhs", "posterization",
      "edge_detection", "data_corruption", "scan_lines">>
Effects == {EffectNames[i] : i \in 1..Len(EffectNames)}

\* x > 1e-8 and x < 1e-8 for a rational x >= 0, decided without leaving the
\* machine integers: n/d > 1/10^8 iff n > d div 10^8.
ExceedsTiny(x) == x[1] > x[2] \div 100000000
BelowTiny(x) == x[1] <= 0 \/ x[1] <= (x[2] - 1) \div 100000000

\* The weights init_frequency_weights gives every effect.
DefaultWeights ==
    [e \in Effects |->
        CASE e = "pixel_sort" ->
               [sub_bass |-> Zero, bass |-> Zero, mid |-> Rat(7, 10),
                treble |-> Rat(3, 10), high_treble |-> Zero]
          [] e = "kaleidoscope" ->
               [sub_bass |-> Zero, bass |-> Zero, mid |-> Zero,
                treble |-> Rat(5, 10), high_treble |-> Rat(5, 10)]
          [] e = "wave_distortion" ->
               [sub_bass |-> Rat(3, 10), bass |-> Rat(7, 10), mid |-> Zero,
                treble |-> Zero, high_treble |-> Zero]
          [] e = "vhs" ->
               [sub_bass |-> Zero, bass |-> Rat(3, 10), mid |-> Rat(3, 10),
                treble |-> Rat(4, 10), high_treble |-> Zero]
          [] e = "posterization" ->
               [sub_bass |-> Zero, bass |-> Zero, mid |-> Rat(8, 10),
                treble |-> Rat(2, 10), high_treble |-> Zero]
          [] e = "edge_detection" ->
               [sub_bass |-> Zero, bass |-> Zero, mid |-> Zero,
                treble |-> Rat(4, 10), high_treble |-> Rat(6, 10)]
          [] e = "data_corruption" ->
               [sub_bass |-> Zero, bass |-> Zero, mid |-> Zero,
                treble |-> Rat(5, 10), high_treble |-> Rat(5, 10)]
          [] OTHER ->
               [sub_bass |-> Zero, bass |-> Rat(2, 10), mid |-> Rat(3, 10),
                treble |-> Rat(5, 10), high_treble |-> Zero]]

\* mix_frequency_bands(sub_bass, bass, mid, treble, high_treble, weights)
MixOver(weighted, total_weight) ==
    IF BelowTiny(total_weight)
    THEN Zero
    ELSE Clip(RDiv(weighted, total_weight), Zero, One)

MixFrequencyBands(b, weights) ==
    MixOver(RAdd(RAdd(RAdd(RAdd(RMul(b.sub_bass, weights.sub_bass),
                                RMul(b.bass, weights.bass)),
                           RMul(b.mid, weights.mid)),
                      RMul(b.treble, weights.treble)),
                 RMul(b.high_treble, weights.high_treble)),
            RAdd(RAdd(RAdd(RAdd(weights.sub_bass, weights.bass), weights.mid),
                      weights.treble), weights.high_treble))

\* Mutation: the toggle is not consulted, every effect is computed.
EffectChecked_Always(checks, e) == TRUE

\* self.effect_checks[e].isChecked()
EffectChecked(checks, e) == checks[e]

\* base_intensity > 1e-8 for a checked effect: the effect's intensity is
\* computed and goes through apply_temporal_smoothing.
EffectActive(checks, base_intensity, e) ==
    EffectChecked(checks, e) /\ ExceedsTiny(base_intensity)

\* np.clip(base_intensity * (0.5 + intensity_sens * 0.5), 0.0, 1.0)
RawIntensity(base_intensity, sens) ==
    Clip(RMul(base_intensity, RAdd(Rat(1, 2), RMul(sens, Rat(1, 2)))),
         Zero, One)

NoIntensities ==
    [pixel_sort |-> Zero, kaleidoscope |-> Zero, wave_distortion |-> Zero,
     vhs |-> Zero, posterization |-> Zero, edge_detection |-> Zero,
     data_corruption |-> Zero, scan_lines |-> Zero]

\* acc collects, over the "Artistic effects" block, the intensities handed on
\* (out), the values fed to the smoothing (raw), the effects smoothed (active)
\* and the dict as left behind (prev).  r is what apply_temporal_smoothing
\* gave for effect e and the value raw.
Smoothed(acc, e, raw, r) ==
    [active |-> acc.active \cup {e},
     raw    |-> [acc.raw EXCEPT ![e] = raw],
     out    |-> [acc.out EXCEPT ![e] = r.out],
     prev   |-> r.prev]

SmoothRaw(acc, factor, e, raw) ==
    Smoothed(acc, e, raw, ApplyTemporalSmoothing(acc.prev, factor, e, raw))

\* One effect of the block: its intensity stays 0.0 and the dict is left
\* alone unless the effect is checked and its band mix exceeds 1e-8.
EffectStep(acc, factor, checks, sens, e, base_intensity) ==
    IF EffectActive(checks, base_intensity, e)
    THEN SmoothRaw(acc, factor, e, RawIntensity(base_intensity, sens))
    ELSE acc

\* The block from the i-th effect on, the effects in the order of the source.
RECURSIVE EffectsFrom(_, _, _, _, _, _, _)
EffectsFrom(i, acc, factor, checks, weights, sens, b) ==
    IF i > Len(EffectNames)
    THEN acc
    ELSE EffectsFrom(i + 1,
             EffectStep(acc, factor, checks, sens, EffectNames[i],
                        MixFrequencyBands(b, weights[EffectNames[i]])),
             factor, checks, weights, sens, b)

EffectIntensities(prev, factor, checks, weights, sens, b) ==
    EffectsFrom(1, [active |-> {}, raw |-> NoIntensities, out |-> NoIntensities,
                    prev |-> prev],
                factor, checks, weights, sens, b)

\* Slider positions the modelled session leaves at their construction values.
ZoomSlider == Rat(130, 100)         \* self.zoom_slider.value() / 100.0
RotationSlider == Rat(50, 10)       \* self.rotation_slider.value() / 10.0
BrightnessChecked == TRUE           \* self.brightness_check.isChecked()

\* Which branch of the zoom code runs, dist being the distance from the frame
\* time to the nearest beat (beat_window = 0.2).
GuiZoomBranch(beat_times, dist) ==
    IF beat_times # {}
    THEN IF RLe(dist, Rat(2, 10)) THEN "beat" ELSE "idle"
    ELSE "continuous"

GuiBassMix(b) ==
    RDiv(RAdd(RMul(b.sub_bass, Rat(2, 10)), b.bass), Rat(12, 10))

\* 1.0 + (self.zoom_slider.value() / 100.0 - 1.0) * blended intensity
GuiZoomFrom(sens, zoom_intensity) ==
    RAdd(One, RMul(RSub(ZoomSlider, One), SensitivityBlend(sens, zoom_intensity)))

GuiZoomIn(branch, b, dist, sens) ==
    CASE branch = "idle" -> One
      [] branch = "beat" ->
           GuiZoomFrom(sens,
               RAdd(RMul(Clip(RSub(One, RDiv(dist, Rat(2, 10))), Zero, One),
                         Rat(7, 10)),
                    RMul(Clip(GuiBassMix(b), Zero, One), Rat(3, 10))))
      [] OTHER -> GuiZoomFrom(sens, GuiBassMix(b))

GuiZoomWithin(b, beat_times, dist, sens) ==
    GuiZoomIn(GuiZoomBranch(beat_times, dist), b, dist, sens)

\* zoom of get_effect_parameters for band values b and frame time t
GuiZoom(b, beat_times, t, sens) ==
    GuiZoomWithin(b, beat_times, NearestDistance(beat_times, t), sens)

GuiRotation(b, sens) ==
    RMul(RotationSlider,
         SensitivityBlend(sens,
             RDiv(RAdd(b.treble, RMul(b.high_treble, Rat(1, 2))), Rat(15, 10))))

\* 1.0 + (bass + mid) * 0.3 when the brightness box is checked
GuiBrightnessBase(b) ==
    IF BrightnessChecked
    THEN RAdd(One, RMul(RAdd(b.bass, b.mid), Rat(3, 10)))
    ELSE One

\* The snare flash on top of brightness, dist being the distance from the
\* frame time to the nearest snare (snare_window = 0.15).
GuiSnareFlash(brightness, snare_times, dist) ==
    IF snare_times # {} /\ RLe(dist, Rat(15, 100))
    THEN Clip(RAdd(brightness,
                   RMul(Clip(RSub(One, RDiv(dist, Rat(15, 100))), Zero, One),
                        Rat(8, 10))),
              One, Rat(2, 1))
    ELSE brightness

GuiBrightness(b, snare_times, t) ==
    GuiSnareFlash(GuiBrightnessBase(b), snare_times,
                  NearestDistance(snare_times, t))

-----------------------------------------------------------------------------
(* The GUI session: the fields of SoundReactiveGUI that the GUI thread and *)
(* the worker threads started by process_full_video and preview_sequence   *)
(* read and write.                                                         *)
(*                                                                         *)
(* Granularity.  A GUI handler runs on the GUI thread and is one step.  A  *)
(* worker iteration is split where it touches a shared field: storing      *)
(* self.current_frame_idx, reading it back in get_effect_parameters (once  *)
(* for the band values, once for the onset distances), and out.write.      *)

TotalFrames == 2        \* frames of the loaded media (self.total_frames)
MaxJobs == 2            \* worker threads started in a session
MaxGuiEvents == 1       \* GUI events handled while workers may run
MaxPreviewEvents == 3   \* GUI events handled in the preview-only session

\* Spectrogram frames per output frame, and the last spectrogram frame.
SpectrogramFramesPerFrame == RDiv(One, RMul(ModelFps, Hop))[1]
LastSpectrogramFrame == TotalFrames * SpectrogramFramesPerFrame

\* np.interp between frame_times[k] and frame_times[k + 1] at q hops
InterpAt(q, k, curve) ==
    IF k >= LastSpectrogramFrame
    THEN curve[LastSpectrogramFrame]
    ELSE RAdd(curve[k], RMul(RSub(q, Rat(k, 1)), RSub(curve[k + 1], curve[k])))

InterpHops(q, curve) == InterpAt(q, q[1] \div q[2], curve)

\* np.interp(t, frame_times, curve) for t >= 0, frame_times[k] = k * Hop
Interp(t, curve) == InterpHops(RDiv(t, Hop), curve)

\* A normalized energy curve: levels 0, 1/2, 1 in turn, two spectrogram
\* frames each, starting at the given phase.
Wave(phase) ==
    [k \in 0..LastSpectrogramFrame |-> Rat(((k \div 2) + phase) % 3, 2)]

\* self.energy_curves before the analysis has delivered
NoCurves == <<>>

WaveCurves ==
    [sub_bass |-> Wave(0), bass |-> Wave(1), mid |-> Wave(2),
     treble |-> Wave(0), high_treble |-> Wave(1)]

\* What the audio analysis delivered to the session.
Analysed == [curves |-> WaveCurves, beats |-> {1}, snares |-> {7}]
AnalysedNoOnsets == [curves |-> WaveCurves, beats |-> {}, snares |-> {}]

Unanalysed == [curves |-> NoCurves, beats |-> {}, snares |-> {}]

\* The five curves interpolated at time t
InterpBands(curves, t) ==
    [sub_bass    |-> Interp(t, curves.sub_bass),
     bass        |-> Interp(t, curves.bass),
     mid         |-> Interp(t, curves.mid),
     treble      |-> Interp(t, curves.treble),
     high_treble |-> Interp(t, curves.high_treble)]

\* np.clip(..., 0, 1) of each band value
ClipBands(v) ==
    [sub_bass    |-> Clip(v.sub_bass, Zero, One),
     bass        |-> Clip(v.bass, Zero, One),
     mid         |-> Clip(v.mid, Zero, One),
     treble      |-> Clip(v.treble, Zero, One),
     high_treble |-> Clip(v.high_treble, Zero, One)]

\* sub_bass = bass = mid = treble = high_treble = 0.5
DefaultBands ==
    [sub_bass |-> Rat(1, 2), bass |-> Rat(1, 2), mid |-> Rat(1, 2),
     treble |-> Rat(1, 2), high_treble |-> Rat(1, 2)]

\* current_time = self.current_frame_idx / self.fps
FrameTimeOf(idx) == RDiv(Rat(idx, 1), ModelFps)

\* The five band values get_effect_parameters reads at frame index idx.
BandsAtFrame(curves, idx) ==
    IF curves = NoCurves
    THEN DefaultBands
    ELSE ClipBands(InterpBands(curves, FrameTimeOf(idx)))

\* np.linspace(0, total_frames / fps, total_frames)[frame_idx]
LinspaceTime(idx) ==
    RDiv(RMul(Rat(idx, 1), RDiv(Rat(TotalFrames, 1), ModelFps)),
         Rat(TotalFrames - 1, 1))

\* sub_bass_interp[frame_idx], ... of _process_video_with_progress
VideoBandsAtFrame(curves, idx) == InterpBands(curves, LinspaceTime(idx))

\* The parameters of one frame: b the band values, t the frame time behind the
\* zoom and the snare flash, fx what the effects block gave.
FrameRecord(prev, checks, sens, beats, snares, b, t, fx) ==
    [bands       |-> b,
     zoom        |-> GuiZoom(b, OnsetTimes(beats), t, sens),
     rotation    |-> GuiRotation(b, sens),
     brightness  |-> GuiBrightness(b, OnsetTimes(snares), t),
     checks      |-> checks,
     active      |-> fx.active,
     raw         |-> fx.raw,
     out         |-> fx.out,
     prev_before |-> prev,
     prev_after  |-> fx.prev]

\* What one evaluation of the parameter code yields.  b are the band values
\* (read at one value of the frame index), idx2 the frame index behind
\* current_time of the zoom and the snare flash.
FrameParameters(prev, factor, checks, weights, sens, beats, snares, b, idx2) ==
    FrameRecord(prev, checks, sens, beats, snares, b, FrameTimeOf(idx2),
                EffectIntensities(prev, factor, checks, weights, sens, b))

Modes == {"video", "image", "folder"}
PreviewModes == {"original", "processed", "sidebyside"}

\* The steps of one loop iteration of a worker, in program order.  The
\* image and folder loops and the preview sequence go through
\* apply_effects_to_frame -> get_effect_parameters; the video loop computes
\* the parameters inline from its own frame_idx.
JobSteps_WriteFirst(kind) ==
    IF kind = "video"
    THEN <<"store", "write", "compute">>
    ELSE <<"store", "params", "write", "compute">>

JobSteps(kind) ==
    IF kind = "video"
    THEN <<"store", "compute", "write">>
    ELSE <<"store", "params", "compute", "write">>

\* The job after it has done the step it stands at.
Advance(job) ==
    LET steps == JobSteps(job.kind)
        i == CHOOSE n \in 1..Len(steps) : steps[n] = job.pc
    IN  IF i = Len(steps)
        THEN [job EXCEPT !.pc = "store", !.frame_idx = @ + 1]
        ELSE [job EXCEPT !.pc = steps[i + 1]]

\* A worker thread at its first statement.  own is the smoothing dict the job
\* would have if it were the only one to touch it since its start.
NewJob(kind, start_frame, end_frame) ==
    [kind |-> kind, pc |-> "store",
     frame_idx |-> start_frame, start_frame |-> start_frame,
     end_frame |-> end_frame, original_frame_idx |-> start_frame,
     bands |-> <<>>, smoothed |-> <<>>, written |-> <<>>, last |-> <<>>,
     own |-> EmptyDict,
     clean_start |-> (prev_effect_intensities = EmptyDict),
     released |-> FALSE]

Min(a, b) == IF a <= b THEN a ELSE b

InitSession(modes, analyses) ==
    /\ mode \in modes
    /\ \E a \in analyses :
          /\ energy_curves = a.curves
          /\ bass_beat_frames = a.beats
          /\ snare_hit_frames = a.snares
    /\ current_frame_idx = 0
    /\ prev_effect_intensities = EmptyDict
    /\ effect_smoothing_factor = Rat(3, 10)
    /\ effect_checks = [e \in Effects |-> FALSE]
    /\ effect_weights = DefaultWeights
    /\ intensity_slider = Rat(70, 100)
    /\ preview_mode = "original"
    /\ preview_params = <<>>
    /\ jobs = <<>>
    /\ gui_events = 0
    /\ IdleStep /\ IdleBatch /\ IdleLater

\* ---- GUI thread ----

\* get_effect_parameters as update_preview reaches it on the GUI thread
PreviewFrame(prev, idx, checks, weights, factor, sens) ==
    FrameParameters(prev, factor, checks, weights, sens,
                    bass_beat_frames, snare_hit_frames,
                    BandsAtFrame(energy_curves, idx), idx)

\* update_preview with the widget state the handler leaves
UpdatePreview(idx, checks, weights, factor, sens, pmode) ==
    IF pmode = "original"
    THEN UNCHANGED <<prev_effect_intensities, preview_params>>
    ELSE \E r \in {PreviewFrame(prev_effect_intensities, idx, checks, weights,
                                 factor, sens)} :
            /\ prev_effect_intensities' = r.prev_after
            /\ preview_params' = r

\* on_frame_change(value), value # self.current_frame_idx
OnFrameChange(limit) ==
    /\ gui_events < limit
    /\ \E value \in 0..(TotalFrames - 1) :
          /\ value # current_frame_idx
          /\ current_frame_idx' = value
          /\ UpdatePreview(value, effect_checks, effect_weights,
                           effect_smoothing_factor, intensity_slider, preview_mode)
    /\ gui_events' = gui_events + 1
    /\ UNCHANGED <<mode, energy_curves, effect_checks, effect_weights,
                   intensity_slider, effect_smoothing_factor, preview_mode, jobs,
                   analysisVars, laterVars, smoothVars, batchVars>>

\* An effect checkbox is clicked: toggled -> update_preview
OnEffectToggle(limit, e) ==
    /\ gui_events < limit
    /\ effect_checks' = [effect_checks EXCEPT ![e] = ~@]
    /\ UpdatePreview(current_frame_idx, effect_checks', effect_weights,
                     effect_smoothing_factor, intensity_slider, preview_mode)
    /\ gui_events' = gui_events + 1
    /\ UNCHANGED <<mode, energy_curves, current_frame_idx, effect_weights,
                   intensity_slider, effect_smoothing_factor, preview_mode, jobs,
                   analysisVars, laterVars, smoothVars, batchVars>>

\* Another preview radio button is chosen.  toggled is connected to
\* update_preview on every radio button, and both the button that loses the
\* check and the one that gets it emit it: update_preview runs twice.
OnPreviewModeChange(limit, m) ==
    /\ gui_events < limit
    /\ m # preview_mode
    /\    /\ preview_mode' = m
          /\ IF m = "original"
             THEN UNCHANGED <<prev_effect_intensities, preview_params>>
             ELSE \E r2 \in {PreviewFrame(
                                 PreviewFrame(prev_effect_intensities,
                                              current_frame_idx, effect_checks,
                                              effect_weights,
                                              effect_smoothing_factor,
                                              intensity_slider).prev_after,
                                 current_frame_idx, effect_checks, effect_weights,
                                 effect_smoothing_factor, intensity_slider)} :
                     /\ prev_effect_intensities' = r2.prev_after
                     /\ preview_params' = r2
    /\ gui_events' = gui_events + 1
    /\ UNCHANGED <<mode, energy_curves, current_frame_idx, effect_checks,
                   effect_weights, intensity_slider, effect_smoothing_factor, jobs,
                   analysisVars, laterVars, smoothVars, batchVars>>

\* on_frequency_weight_change(effect_key, band_key, value)
OnFrequencyWeightChange(limit, effect_key, band_key, value) ==
    /\ gui_events < limit
    /\ effect_weights[effect_key][band_key] # Rat(value, 100)
    /\ effect_weights' =
          [effect_weights EXCEPT ![effect_key][band_key] = Rat(value, 100)]
    /\ UpdatePreview(current_frame_idx, effect_checks, effect_weights',
                     effect_smoothing_factor, intensity_slider, preview_mode)
    /\ gui_events' = gui_events + 1
    /\ UNCHANGED <<mode, energy_curves, current_frame_idx, effect_checks,
                   intensity_slider, effect_smoothing_factor, preview_mode, jobs,
                   analysisVars, laterVars, smoothVars, batchVars>>

\* on_effect_smoothing_change(value)
OnEffectSmoothingChange(limit, value) ==
    /\ gui_events < limit
    /\ effect_smoothing_factor # Rat(value, 100)
    /\ effect_smoothing_factor' = Rat(value, 100)
    /\ UpdatePreview(current_frame_idx, effect_checks, effect_weights,
                     effect_smoothing_factor', intensity_slider, preview_mode)
    /\ gui_events' = gui_events + 1
    /\ UNCHANGED <<mode, energy_curves, current_frame_idx, effect_checks,
                   effect_weights, intensity_slider, preview_mode, jobs,
                   analysisVars, laterVars, smoothVars, batchVars>>

\* on_intensity_change(value): the slider already holds the new value
OnIntensityChange(limit, value) ==
    /\ gui_events < limit
    /\ intensity_slider # Rat(value, 100)
    /\ intensity_slider' = Rat(value, 100)
    /\ UpdatePreview(current_frame_idx, effect_checks, effect_weights,
                     effect_smoothing_factor, intensity_slider', preview_mode)
    /\ gui_events' = gui_events + 1
    /\ UNCHANGED <<mode, energy_curves, current_frame_idx, effect_checks,
                   effect_weights, effect_smoothing_factor, preview_mode, jobs,
                   analysisVars, laterVars, smoothVars, batchVars>>

\* ---- starting workers (GUI thread) ----

\* process_full_video: the guards pass and the thread is started.  Nothing
\* looks at whether another worker is still running.
ProcessFullVideo ==
    /\ Len(jobs) < MaxJobs
    /\ energy_curves # NoCurves
    /\ jobs' = Append(jobs, NewJob(IF mode = "video" THEN "video" ELSE "image",
                                   0, TotalFrames))
    /\ UNCHANGED <<mode, energy_curves, current_frame_idx, effect_checks,
                   effect_weights, intensity_slider, effect_smoothing_factor,
                   prev_effect_intensities, preview_mode, preview_params,
                   gui_events, analysisVars, laterVars, smoothVars, batchVars>>

\* preview_sequence: needs self.video_cap; the thread reads its start frame
\* from self.current_frame_idx and covers int(self.fps) frames.
PreviewSequence ==
    /\ Len(jobs) < MaxJobs
    /\ mode = "video"
    /\ jobs' = Append(jobs,
                      NewJob("preview", current_frame_idx,
                             Min(current_frame_idx + ModelFps[1] \div ModelFps[2],
                                 TotalFrames)))
    /\ UNCHANGED <<mode, energy_curves, current_frame_idx, effect_checks,
                   effect_weights, intensity_slider, effect_smoothing_factor,
                   prev_effect_intensities, preview_mode, preview_params,
                   gui_events, analysisVars, laterVars, smoothVars, batchVars>>

\* ---- worker threads ----

Running(j) == j \in 1..Len(jobs) /\ ~jobs[j].released

\* self.current_frame_idx = frame_idx (after a successful read in the video
\* and preview loops)
JobStore(j) ==
    /\ Running(j)
    /\ jobs[j].pc = "store"
    /\ jobs[j].frame_idx < jobs[j].end_frame
    /\ current_frame_idx' = jobs[j].frame_idx
    /\ jobs' = [jobs EXCEPT ![j] = Advance(@)]
    /\ UNCHANGED <<mode, energy_curves, effect_checks, effect_weights,
                   intensity_slider, effect_smoothing_factor,
                   prev_effect_intensities, preview_mode, preview_params,
                   gui_events, analysisVars, laterVars, smoothVars, batchVars>>

\* get_effect_parameters, first part: current_time from
\* self.current_frame_idx, the five band values interpolated at it
JobParams(j) ==
    /\ Running(j)
    /\ jobs[j].pc = "params"
    /\ jobs' = [jobs EXCEPT ![j] =
                   Advance([@ EXCEPT !.bands =
                               BandsAtFrame(energy_curves, current_frame_idx)])]
    /\ UNCHANGED <<mode, energy_curves, current_frame_idx, effect_checks,
                   effect_weights, intensity_slider, effect_smoothing_factor,
                   prev_effect_intensities, preview_mode, preview_params,
                   gui_events, analysisVars, laterVars, smoothVars, batchVars>>

\* The rest of the parameter code: zoom, rotation, brightness, and the eight
\* effect intensities through apply_temporal_smoothing on the session's dict.
JobBands(job) ==
    IF job.kind = "video"
    THEN VideoBandsAtFrame(energy_curves, job.frame_idx)
    ELSE job.bands

\* The job after the parameters r of its frame are computed; alone is what
\* the effects block gives on the dict job.own.
Computed(job, r, alone) ==
    Advance([job EXCEPT !.smoothed = Append(@, job.frame_idx),
                        !.own = alone.prev,
                        !.last = [idx |-> job.frame_idx, params |-> r,
                                  alone |-> alone.out]])

JobCompute(j) ==
    /\ Running(j)
    /\ jobs[j].pc = "compute"
    /\ \E b \in {JobBands(jobs[j])} :
       \E r \in {FrameParameters(prev_effect_intensities,
                     effect_smoothing_factor, effect_checks, effect_weights,
                     intensity_slider, bass_beat_frames, snare_hit_frames, b,
                     IF jobs[j].kind = "video" THEN jobs[j].frame_idx
                                               ELSE current_frame_idx)} :
       \E alone \in {EffectIntensities(jobs[j].own, effect_smoothing_factor,
                                       effect_checks, effect_weights,
                                       intensity_slider, b)} :
          /\ prev_effect_intensities' = r.prev_after
          /\ jobs' = [jobs EXCEPT ![j] = Computed(@, r, alone)]
    /\ UNCHANGED <<mode, energy_curves, current_frame_idx, effect_checks,
                   effect_weights, intensity_slider, effect_smoothing_factor,
                   preview_mode, preview_params, gui_events, analysisVars, laterVars,
                   smoothVars, batchVars>>

\* out.write(processed_frame)
JobWrite(j) ==
    /\ Running(j)
    /\ jobs[j].pc = "write"
    /\ jobs' = [jobs EXCEPT ![j] =
                   Advance([@ EXCEPT !.written = Append(@, jobs[j].frame_idx)])]
    /\ UNCHANGED <<mode, energy_curves, current_frame_idx, effect_checks,
                   effect_weights, intensity_slider, effect_smoothing_factor,
                   prev_effect_intensities, preview_mode, preview_params,
                   gui_events, analysisVars, laterVars, smoothVars, batchVars>>

\* The loop is over: out.release().  The video loop then sets
\* self.current_frame_idx = 0, the preview sequence puts back the index it
\* found at its start.
JobEnd(j) ==
    /\ Running(j)
    /\ jobs[j].pc = "store"
    /\ jobs[j].frame_idx >= jobs[j].end_frame
    /\ jobs' = [jobs EXCEPT ![j] = [@ EXCEPT !.pc = "done", !.released = TRUE]]
    /\ current_frame_idx' =
          CASE jobs[j].kind = "video" -> 0
            [] jobs[j].kind = "preview" -> jobs[j].original_frame_idx
            [] OTHER -> current_frame_idx
    /\ UNCHANGED <<mode, energy_curves, effect_checks, effect_weights,
                   intensity_slider, effect_smoothing_factor,
                   prev_effect_intensities, preview_mode, preview_params,
                   gui_events, analysisVars, laterVars, smoothVars, batchVars>>

\* ---- Spec: the GUI thread and the workers it starts ----

\* The effect checkboxes the modelled session clicks while workers run.
ClickedEffects == {"pixel_sort"}

Init == InitSession({"video", "image"}, {Analysed})

Next ==
    \/ OnFrameChange(MaxGuiEvents)
    \/ \E e \in ClickedEffects : OnEffectToggle(MaxGuiEvents, e)
    \/ \E m \in {"original", "processed"} : OnPreviewModeChange(MaxGuiEvents, m)
    \/ ProcessFullVideo
    \/ PreviewSequence
    \/ \E j \in 1..MaxJobs : JobStore(j)
    \/ \E j \in 1..MaxJobs : JobParams(j)
    \/ \E j \in 1..MaxJobs : JobCompute(j)
    \/ \E j \in 1..MaxJobs : JobWrite(j)
    \/ \E j \in 1..MaxJobs : JobEnd(j)

Spec == Init /\ [][Next]_vars

\* ---- SpecPreview: the GUI thread alone, every control of the effects ----

\* Slider positions the modelled session moves the controls to.
WeightChanges ==
    {<<"pixel_sort", "mid", 0>>, <<"pixel_sort", "treble", 0>>,
     <<"pixel_sort", "bass", 100>>, <<"wave_distortion", "bass", 0>>}
SmoothingSliderValues == {0, 50, 100}
IntensitySliderValues == {0, 100}

InitPreview == InitSession(Modes, {Analysed, AnalysedNoOnsets, Unanalysed})

NextPreview ==
    \/ OnFrameChange(MaxPreviewEvents)
    \/ \E e \in Effects : OnEffectToggle(MaxPreviewEvents, e)
    \/ \E m \in PreviewModes : OnPreviewModeChange(MaxPreviewEvents, m)
    \/ \E c \in WeightChanges :
          OnFrequencyWeightChange(MaxPreviewEvents, c[1], c[2], c[3])
    \/ \E value \in SmoothingSliderValues :
          OnEffectSmoothingChange(MaxPreviewEvents, value)
    \/ \E value \in IntensitySliderValues :
          OnIntensityChange(MaxPreviewEvents, value)

SpecPreview == InitPreview /\ [][NextPreview]_vars

-----------------------------------------------------------------------------
(* Properties of the session with workers (Spec).                          *)

\* C1: at the start of every render job (full render or preview sequence) the
\* smoothing state is empty, so the first frame the job smooths hands on, for
\* every smoothed effect, exactly the raw intensity of that frame.
C1_JobStartsFromEmptySmoothingState ==
    \A j \in 1..Len(jobs) :
        /\ jobs[j].clean_start
        /\ Len(jobs[j].smoothed) = 1 =>
              \A e \in jobs[j].last.params.active :
                  jobs[j].last.params.out[e] = jobs[j].last.params.raw[e]

\* C2: no two concurrently running jobs share smoothing state: what a job that
\* found the state empty hands on for a frame is what it would hand on had it
\* alone touched the state since its start (no preview having been rendered).
C2_JobSmoothingIsolated ==
    preview_params = <<>> =>
        \A j \in 1..Len(jobs) :
            (jobs[j].clean_start /\ jobs[j].last # <<>>) =>
                jobs[j].last.params.out = jobs[j].last.alone

\* C3: in an image/folder-mode job (the only job of the session) the
\* parameters computed for output frame i are those of frame index i, whatever
\* the GUI thread does in between.
C3_ImageJobFrameIndexStable ==
    \A j \in 1..Len(jobs) :
        (Len(jobs) = 1 /\ jobs[j].kind = "image" /\ jobs[j].last # <<>>) =>
            /\ jobs[j].last.params.bands =
                  BandsAtFrame(energy_curves, jobs[j].last.idx)
            /\ jobs[j].last.params.zoom =
                  GuiZoom(jobs[j].last.params.bands, OnsetTimes(bass_beat_frames),
                          FrameTimeOf(jobs[j].last.idx), intensity_slider)
            /\ jobs[j].last.params.brightness =
                  GuiBrightness(jobs[j].last.params.bands,
                                OnsetTimes(snare_hit_frames),
                                FrameTimeOf(jobs[j].last.idx))

\* C4: within one job the frames are written in strictly increasing index
\* order, one write per source frame; the smoothing update for frame N comes
\* after that for frame N-1 and before the write of frame N; the writer is
\* released only after the last frame is written.
C4_FramesWrittenInOrder ==
    \A j \in 1..Len(jobs) :
        /\ \A n \in 1..Len(jobs[j].written) :
              jobs[j].written[n] = jobs[j].start_frame + n - 1
        /\ \A n \in 1..Len(jobs[j].smoothed) :
              jobs[j].smoothed[n] = jobs[j].start_frame + n - 1
        /\ Len(jobs[j].written) <= Len(jobs[j].smoothed)
        /\ Len(jobs[j].smoothed) <= Len(jobs[j].written) + 1
        /\ Len(jobs[j].written) <= jobs[j].end_frame - jobs[j].start_frame
        /\ jobs[j].released =>
              /\ Len(jobs[j].written) = jobs[j].end_frame - jobs[j].start_frame
              /\ Len(jobs[j].smoothed) = Len(jobs[j].written)

\* C4 witness: a full render with a smoothed effect has written every frame
\* and released its writer.
C4_Witness ==
    \E j \in 1..Len(jobs) :
        /\ jobs[j].released
        /\ jobs[j].start_frame = 0
        /\ Len(jobs[j].written) = TotalFrames
        /\ jobs[j].last.params.active # {}

-----------------------------------------------------------------------------
(* Properties of the preview session (SpecPreview).                        *)

\* C5: after any sequence of frame changes, effect toggles, band-weight
\* changes and smoothing-factor changes, each of the eight effect intensities
\* handed on and each value stored in the smoothing state lies in [0,1].
C5_IntensitiesInUnitRange ==
    /\ \A e \in DOMAIN prev_effect_intensities :
          InUnit(prev_effect_intensities[e])
    /\ preview_params # <<>> =>
          \A e \in Effects : InUnit(preview_params.out[e])

\* C5 witness: an effect whose smoothed intensity lies strictly inside (0,1)
\* and differs from the raw intensity of the frame.
C5_Witness ==
    /\ preview_params # <<>>
    /\ \E e \in preview_params.active :
          /\ preview_params.out[e] # preview_params.raw[e]
          /\ preview_params.out[e] # Zero
          /\ preview_params.out[e] # One
          /\ prev_effect_intensities[e] = preview_params.out[e]

\* C7: an effect whose toggle is off gets intensity exactly 0, and its entry
\* in the smoothing state is neither created nor changed.
C7_ToggleOffMeansZero ==
    preview_params # <<>> =>
        \A e \in Effects :
            ~preview_params.checks[e] =>
                /\ preview_params.out[e] = Zero
                /\ (e \in DOMAIN preview_params.prev_after)
                      = (e \in DOMAIN preview_params.prev_before)
                /\ e \in DOMAIN preview_params.prev_before =>
                      preview_params.prev_after[e] = preview_params.prev_before[e]

\* C7 witness: an effect that was smoothed before is toggled off: its
\* intensity is 0 and its entry, a non-zero value, is still there.
C7_Witness ==
    /\ preview_params # <<>>
    /\ \E e \in Effects :
          /\ ~preview_params.checks[e]
          /\ e \in DOMAIN preview_params.prev_after
          /\ preview_params.prev_after[e] # Zero
          /\ preview_params.out[e] = Zero

-----------------------------------------------------------------------------
(* VideoProcessor.apply_effects: one call, stage by stage.                 *)
(*                                                                         *)
(* A frame is [px, ops]: px the pixel values it was read with, ops the     *)
(* stage functions that have changed it since, in order.  What an effect   *)
(* does to the pixels is not modelled; a frame with ops = <<>> has the     *)
(* pixel values px.  blend_layers is computed per pixel on such frames.    *)

MaxEnabled == 2     \* effect intensities above 0 in a call (or all of them)
OpacityGrid == 2    \* layer_opacity in {k/OpacityGrid : k = 0..OpacityGrid}

MakeFrame(px) == [px |-> px, ops |-> <<>>]

\* The frame a stage function returns when it does not return its argument.
Processed(frame, stage, amount) ==
    [frame EXCEPT !.ops = Append(@, <<stage, amount>>)]

\* original_transformed when effect_mode is not "layer"
None == <<>>

\* Mutation: the blur is applied before the artistic effects.
StageOrder_BlurFirst ==
    <<"zoom", "rotation", "color_grade", "motion_blur", "pixel_sort",
      "kaleidoscope", "wave_distortion", "glitch", "data_corruption",
      "artifacts", "posterization", "edge_detection", "vhs", "scan_lines",
      "blend">>

\* The statements of apply_effects from "frame = self.zoom_frame(...)" on.
StageOrder ==
    <<"zoom", "rotation", "color_grade", "pixel_sort", "kaleidoscope",
      "wave_distortion", "glitch", "data_corruption", "artifacts",
      "posterization", "edge_detection", "vhs", "scan_lines", "motion_blur",
      "blend">>

\* The stages guarded by "if <stage>_intensity > 0.0"
EffectStages ==
    {"pixel_sort", "kaleidoscope", "wave_distortion", "glitch",
     "data_corruption", "artifacts", "posterization", "edge_detection", "vhs",
     "scan_lines", "motion_blur"}

\* Whether apply_effects calls the stage's function.
StageCalled(c, stage) ==
    CASE stage \in {"zoom", "rotation", "color_grade"} -> TRUE
      [] stage = "blend" -> c.effect_mode = "layer"
      [] OTHER -> RLt(Zero, c.intensity[stage])

\* zoom_frame: if zoom_factor <= 1.0: return frame
ZoomFrame(frame, zoom_factor) ==
    IF RLe(zoom_factor, One) THEN frame ELSE Processed(frame, "zoom", zoom_factor)

\* rotate_frame: if abs(angle_degrees) < 0.01: return frame
RotateFrame(frame, angle_degrees) ==
    IF RLt(RAbs(angle_degrees), Rat(1, 100))
    THEN frame
    ELSE Processed(frame, "rotation", angle_degrees)

\* apply_color_grade: returns frame when all three arguments are neutral
ApplyColorGrade(frame, hue_shift, saturation_mult, brightness_mult) ==
    IF hue_shift = Zero /\ saturation_mult = One /\ brightness_mult = One
    THEN frame
    ELSE Processed(frame, "color_grade",
                   <<hue_shift, saturation_mult, brightness_mult>>)

\* floor(k * n / d) for 0 <= n, 0 < d, computed by doubling so that no
\* intermediate value exceeds 2 * d.  The result is [q, r] with
\* k * n = q * d + r.
RECURSIVE FloorProduct(_, _, _)
HalfDoubled(h, n, d, odd) ==
    IF odd
    THEN [q |-> 2 * h.q + (2 * h.r) \div d + n \div d
                + (((2 * h.r) % d) + (n % d)) \div d,
          r |-> (((2 * h.r) % d) + (n % d)) % d]
    ELSE [q |-> 2 * h.q + (2 * h.r) \div d, r |-> (2 * h.r) % d]
FloorProduct(k, n, d) ==
    IF k = 0
    THEN [q |-> 0, r |-> 0]
    ELSE HalfDoubled(FloorProduct(k \div 2, n, d), n, d, k % 2 = 1)

\* np.clip(result * 255.0, 0, 255).astype(np.uint8) for one pixel
ToUint8(unit) == FloorProduct(255, unit[1], unit[2]).q
ClipToUint8(result) == ToUint8(Clip(result, Zero, One))

RMin(p, q) == IF RLe(p, q) THEN p ELSE q
RMax(p, q) == IF RLe(p, q) THEN q ELSE p

\* The square root of a rational that is a square (base_f = 1 is the only
\* pixel level at or above 0.5 the model uses).
ISqrt(n) == CHOOSE k \in 0..n : k * k = n
RSqrt(p) == <<ISqrt(p[1]), ISqrt(p[2])>>

\* 2.0 * base_f * overlay_f, and 1.0 - 2.0 * (1.0 - base_f) * (1.0 - overlay_f)
TwiceProduct(b, o) == RMul(Rat(2, 1), RMul(b, o))
TwiceScreen(b, o) == RSub(One, TwiceProduct(RSub(One, b), RSub(One, o)))

\* 1e-8, the addend that guards the divisions of color_dodge and color_burn
Tiny == Rat(1, 100000000)

\* The value of one pixel under a blending mode, before the opacity mix.
BlendMode(blend_mode, b, o) ==
    CASE blend_mode = "normal" -> o
      [] blend_mode = "multiply" -> RMul(b, o)
      [] blend_mode = "screen" -> RSub(One, RMul(RSub(One, b), RSub(One, o)))
      [] blend_mode = "overlay" ->
           IF RLt(b, Rat(1, 2)) THEN TwiceProduct(b, o) ELSE TwiceScreen(b, o)
      [] blend_mode = "soft_light" ->
           IF RLt(b, Rat(1, 2))
           THEN RSub(b, RMul(RSub(One, RMul(Rat(2, 1), o)),
                             RMul(b, RSub(One, b))))
           ELSE RAdd(b, RMul(RSub(RMul(Rat(2, 1), o), One),
                             RSub(RSqrt(b), b)))
      [] blend_mode = "hard_light" ->
           IF RLt(o, Rat(1, 2)) THEN TwiceProduct(b, o) ELSE TwiceScreen(b, o)
      [] blend_mode = "color_dodge" ->
           RMin(One, RDiv(b, RAdd(RSub(One, o), Tiny)))
      [] blend_mode = "color_burn" ->
           RSub(One, RMin(One, RDiv(RSub(One, b), RAdd(o, Tiny))))
      [] blend_mode = "darken" -> RMin(b, o)
      [] blend_mode = "lighten" -> RMax(b, o)
      [] blend_mode = "difference" -> RAbs(RSub(b, o))
      [] blend_mode = "exclusion" -> RSub(RAdd(b, o), TwiceProduct(b, o))
      [] OTHER -> o

\* result * opacity + base_f * (1.0 - opacity), back to uint8
BlendPixel(base_f, overlay_f, blend_mode, opacity) ==
    ClipToUint8(RAdd(RMul(BlendMode(blend_mode, base_f, overlay_f), opacity),
                     RMul(base_f, RSub(One, opacity))))

RECURSIVE BlendPixels(_, _, _, _, _)
BlendPixels(i, base, overlay, blend_mode, opacity) ==
    IF i > Len(base)
    THEN <<>>
    ELSE <<BlendPixel(Rat(base[i], 255), Rat(overlay[i], 255), blend_mode, opacity)>>
         \o BlendPixels(i + 1, base, overlay, blend_mode, opacity)

\* blend_layers(base, overlay, blend_mode, opacity)
BlendLayers(base, overlay, blend_mode, opacity) ==
    IF RLe(opacity, Zero)
    THEN base
    ELSE IF base.ops = <<>> /\ overlay.ops = <<>>
         THEN MakeFrame(BlendPixels(1, base.px, overlay.px, blend_mode, opacity))
         ELSE [px  |-> base.px,
               ops |-> <<<<"blend", base.ops, overlay.ops, blend_mode, opacity>>>>]

\* What the stage's statement assigns to frame.
StageApply(c, stage, frame, original_transformed) ==
    CASE stage = "zoom" -> ZoomFrame(frame, c.zoom)
      [] stage = "rotation" -> RotateFrame(frame, c.rotation)
      [] stage = "color_grade" ->
           ApplyColorGrade(frame, c.hue_shift, c.saturation, c.brightness)
      [] stage = "blend" ->
           BlendLayers(original_transformed, frame, c.blend_mode, c.layer_opacity)
      [] OTHER -> Processed(frame, stage, c.intensity[stage])

\* ---- SpecEffects: the calls the model makes ----

BlendModes ==
    {"normal", "multiply", "screen", "overlay", "soft_light", "hard_light",
     "color_dodge", "color_burn", "darken", "lighten", "difference",
     "exclusion", "unknown"}
Opacities == {Rat(k, OpacityGrid) : k \in 0..OpacityGrid}

\* Pixel values of the one-pixel frames the calls are made with: 0, 1/5, 2/5
\* and 1 of full scale.
PixelLevels == {0, 51, 102, 255}

\* Every effect intensity 0.0, the defaults of apply_effects.
NoEffects == [stage \in EffectStages |-> Zero]
\* The intensities with exactly the stages in on above 0.0.
Enabled(on) == [stage \in EffectStages |-> IF stage \in on THEN Rat(1, 2) ELSE Zero]
EnabledChoices ==
    {on \in SUBSET EffectStages : Cardinality(on) <= MaxEnabled} \cup {EffectStages}

\* zoom, rotation, hue_shift, saturation, brightness at their neutral values
NeutralTransform ==
    [zoom |-> One, rotation |-> Zero, hue_shift |-> Zero, saturation |-> One,
     brightness |-> One]
Transforms ==
    {NeutralTransform,
     [NeutralTransform EXCEPT !.zoom = Rat(13, 10)],
     [NeutralTransform EXCEPT !.rotation = Rat(5, 1), !.brightness = Rat(3, 2)],
     [zoom |-> Rat(13, 10), rotation |-> Rat(-5, 1), hue_shift |-> Rat(30, 1),
      saturation |-> Rat(13, 10), brightness |-> Rat(3, 2)]}

DirectMode == [effect_mode |-> "direct", blend_mode |-> "normal", layer_opacity |-> One]
LayerModes ==
    {[effect_mode |-> "layer", blend_mode |-> m, layer_opacity |-> o] :
        m \in BlendModes, o \in Opacities}

MakeCall(px, t, on, m) ==
    [frame |-> MakeFrame(<<px>>),
     zoom |-> t.zoom, rotation |-> t.rotation, hue_shift |-> t.hue_shift,
     saturation |-> t.saturation, brightness |-> t.brightness,
     intensity |-> Enabled(on),
     effect_mode |-> m.effect_mode, blend_mode |-> m.blend_mode,
     layer_opacity |-> m.layer_opacity]

\* Calls with every parameter neutral, in direct mode and in layer mode with
\* every blending mode and opacity; and calls with transforms and effects.
NeutralCalls ==
    {MakeCall(px, NeutralTransform, {}, m) :
        px \in PixelLevels, m \in {DirectMode} \cup LayerModes}
EffectCalls ==
    {MakeCall(102, t, on, m) :
        t \in Transforms, on \in EnabledChoices,
        m \in {DirectMode,
               [effect_mode |-> "layer", blend_mode |-> "normal",
                layer_opacity |-> Rat(1, 2)],
               [effect_mode |-> "layer", blend_mode |-> "multiply",
                layer_opacity |-> One]}}

\* apply_effects is entered: the arguments are bound.
InitEffects ==
    /\ fx_call \in NeutralCalls \cup EffectCalls
    /\ fx_pc = 0
    /\ fx_frame = fx_call.frame
    /\ fx_original = None
    /\ fx_trace = <<>>
    /\ fx_result = <<>>
    /\ IdleRenderer /\ IdleAnalyzer /\ IdleImage /\ IdleRun /\ IdleBand /\ IdleResample /\ IdleFolder /\ IdleSlider /\ IdleWebcam /\ IdleRace /\ IdleLoop

\* original_transformed: the zoomed and rotated copy in layer mode, else None
PrepareOriginal ==
    /\ fx_pc = 0
    /\ fx_original' =
          IF fx_call.effect_mode = "layer"
          THEN RotateFrame(ZoomFrame(fx_call.frame, fx_call.zoom), fx_call.rotation)
          ELSE None
    /\ fx_pc' = 1
    /\ UNCHANGED <<fx_call, fx_frame, fx_trace, fx_result, exceptEffects>>

\* The statement of the stage at fx_pc calls the stage's function.
RunStage ==
    /\ fx_pc \in 1..Len(StageOrder)
    /\ StageCalled(fx_call, StageOrder[fx_pc])
    /\ fx_frame' = StageApply(fx_call, StageOrder[fx_pc], fx_frame, fx_original)
    /\ fx_trace' = Append(fx_trace, StageOrder[fx_pc])
    /\ fx_pc' = fx_pc + 1
    /\ UNCHANGED <<fx_call, fx_original, fx_result, exceptEffects>>

\* The guard of the stage at fx_pc is false.
SkipStage ==
    /\ fx_pc \in 1..Len(StageOrder)
    /\ ~StageCalled(fx_call, StageOrder[fx_pc])
    /\ fx_pc' = fx_pc + 1
    /\ UNCHANGED <<fx_call, fx_frame, fx_original, fx_trace, fx_result,
                   exceptEffects>>

\* return frame
ReturnFrame ==
    /\ fx_pc = Len(StageOrder) + 1
    /\ fx_result' = fx_frame
    /\ fx_pc' = fx_pc + 1
    /\ UNCHANGED <<fx_call, fx_frame, fx_original, fx_trace, exceptEffects>>

NextEffects ==
    \/ PrepareOriginal
    \/ RunStage
    \/ SkipStage
    \/ ReturnFrame

SpecEffects == InitEffects /\ [][NextEffects]_vars

Returned == fx_pc = Len(StageOrder) + 2

\* C11: for every parameter combination the stage functions apply_effects
\* calls are called in the order zoom, rotation, color grade, pixel sort,
\* kaleidoscope, wave distortion, glitch, data corruption, artifacts,
\* posterization, edge detection, VHS, scan lines, motion blur, blend: each at
\* most once, blend only in layer mode, and nothing but blend after the blur.
C11_FixedStageOrder ==
    \A order \in {<<"zoom", "rotation", "color_grade", "pixel_sort",
                    "kaleidoscope", "wave_distortion", "glitch",
                    "data_corruption", "artifacts", "posterization",
                    "edge_detection", "vhs", "scan_lines", "motion_blur",
                    "blend">>} :
        /\ \A i \in 1..Len(fx_trace) : \E r \in 1..Len(order) : order[r] = fx_trace[i]
        /\ \A i \in 1..Len(fx_trace), j \in 1..Len(fx_trace) :
              i < j => \E r1 \in 1..Len(order), r2 \in 1..Len(order) :
                          r1 < r2 /\ order[r1] = fx_trace[i] /\ order[r2] = fx_trace[j]
        /\ \A i \in 1..Len(fx_trace) :
              /\ fx_trace[i] = "blend" => fx_call.effect_mode = "layer"
              /\ (fx_trace[i] = "motion_blur" /\ i < Len(fx_trace)) =>
                    (i + 1 = Len(fx_trace) /\ fx_trace[i + 1] = "blend")
        /\ Returned =>
              \A r \in 1..Len(order) :
                  StageCalled(fx_call, order[r]) <=>
                      \E i \in 1..Len(fx_trace) : fx_trace[i] = order[r]

\* C11 witness: a layer-mode call with every effect enabled has returned after
\* all fifteen stages, the blur next to last and the blend last.
C11_Witness ==
    /\ Returned
    /\ Len(fx_trace) = 15
    /\ fx_trace[14] = "motion_blur"
    /\ fx_trace[15] = "blend"
    /\ fx_trace[4] = "pixel_sort"

\* C12: apply_effects called with every parameter at its neutral value
\* returns a frame bit-identical to its input, in direct mode and in layer
\* mode for every blend mode and opacity.
C12_NeutralCallIsIdentity ==
    (Returned /\ fx_call \in NeutralCalls) => fx_result = fx_call.frame

\* ---------------------------------------------------------------------
\* AudioAnalyzer.normalize_energy and AudioAnalyzer.detect_peaks
\* ---------------------------------------------------------------------

MaxCurveLen == 3

\* an_result before the function returns; <<value>> once it has.
Pending == <<>>

\* The threshold of normalize_energy: 1e-8.
NoVariation == Rat(1, 100000000)

RECURSIVE SeqMin(_, _)
\* np.min over the first n entries, n >= 1
SeqMin(energy, n) ==
    IF n = 1 THEN energy[1] ELSE RMin(SeqMin(energy, n - 1), energy[n])

RECURSIVE SeqMax(_, _)
\* np.max over the first n entries, n >= 1
SeqMax(energy, n) ==
    IF n = 1 THEN energy[1] ELSE RMax(SeqMax(energy, n - 1), energy[n])

\* np.zeros_like(energy)
ZerosLike(energy) == [i \in 1..Len(energy) |-> Zero]

\* (energy - energy_min) / energy_range
Rescaled(energy, energy_min, energy_range) ==
    [i \in 1..Len(energy) |-> RDiv(RSub(energy[i], energy_min), energy_range)]

NormalizeFrom(energy, energy_min, energy_range) ==
    IF RLt(energy_range, NoVariation)
    THEN ZerosLike(energy)
    ELSE Rescaled(energy, energy_min, energy_range)

\* A normalize_energy whose test is energy_range <= 1e-8.
NormalizeEnergy_Inclusive(energy) ==
    IF RLe(RSub(SeqMax(energy, Len(energy)), SeqMin(energy, Len(energy))), NoVariation)
    THEN ZerosLike(energy)
    ELSE NormalizeFrom(energy, SeqMin(energy, Len(energy)),
                       RSub(SeqMax(energy, Len(energy)), SeqMin(energy, Len(energy))))

NormalizeEnergy(energy) ==
    NormalizeFrom(energy, SeqMin(energy, Len(energy)),
                  RSub(SeqMax(energy, Len(energy)), SeqMin(energy, Len(energy))))

\* ---- detect_peaks: np.percentile and scipy.signal.find_peaks ----

MaxPeakCurveLen == 8
LevelGrid == 2
MaxDistance == 3

\* energy[i] with numpy's indices 0..n-1
At(energy, i) == energy[i + 1]

\* How many entries are below v, and how many are at most v.
CountBelow(energy, v) == Cardinality({i \in 1..Len(energy) : RLt(energy[i], v)})
CountUpTo(energy, v) == Cardinality({i \in 1..Len(energy) : RLe(energy[i], v)})

\* np.sort(energy)[k], k in 0..n-1
KthSmallest(energy, k) ==
    CHOOSE v \in {energy[i] : i \in 1..Len(energy)} :
        CountBelow(energy, v) <= k /\ k < CountUpTo(energy, v)

\* lo + (hi - lo) * gamma, gamma = position - floor(position)
Lerp(lo, hi, position, below) ==
    RAdd(lo, RMul(RSub(hi, lo), RSub(position, Rat(below, 1))))

PercentileAt(energy, position, below) ==
    Lerp(KthSmallest(energy, below),
         KthSmallest(energy, Min(below + 1, Len(energy) - 1)),
         position, below)

\* np.percentile(energy, q), linear interpolation between the two nearest
\* order statistics: position q/100 * (n-1) in the sorted curve
Percentile(energy, q) ==
    PercentileAt(energy, Rat(q * (Len(energy) - 1), 100),
                 (q * (Len(energy) - 1)) \div 100)

\* find_peaks, first step: the samples l..r form a flat top that is strictly
\* higher than the sample before and the sample after it; the first and the
\* last sample of the curve never belong to one.
IsFlatTop(energy, l, r) ==
    /\ 1 <= l /\ l <= r /\ r <= Len(energy) - 2
    /\ \A i \in l..r : At(energy, i) = At(energy, l)
    /\ RLt(At(energy, l - 1), At(energy, l))
    /\ RLt(At(energy, r + 1), At(energy, r))

\* The local maxima: the middle (rounded down) of every flat top.
LocalMaxima(energy) ==
    {m \in 1..Len(energy) - 2 :
        \E l \in 1..m, r \in m..Len(energy) - 2 :
            IsFlatTop(energy, l, r) /\ m = (l + r) \div 2}

\* find_peaks, height=threshold: peaks at or above the threshold
AboveHeight(energy, peaks, threshold) ==
    {p \in peaks : RLe(threshold, At(energy, p))}

\* The orders in which the distance step can visit the peaks: from the
\* highest to the lowest, peaks of equal height in the order the sort leaves
\* them in.
PriorityOrders(energy, peaks) ==
    {o \in [1..Cardinality(peaks) -> peaks] :
        /\ \A i \in DOMAIN o, j \in DOMAIN o : i # j => o[i] # o[j]
        /\ \A i \in DOMAIN o, j \in DOMAIN o :
              i < j => RLe(At(energy, o[j]), At(energy, o[i]))}

\* A distance step that lets peaks one sample closer than `distance` stand.
Suppressed_Lax(keep, j, distance) ==
    {k \in keep : k # j /\ Abs(k - j) < distance - 1}

\* A distance step that also drops a peak exactly `distance` away.
Suppressed_Inclusive(keep, j, distance) ==
    {k \in keep : k # j /\ Abs(k - j) <= distance}

\* The peaks a kept peak j removes: the ones closer than distance to it.
Suppressed(keep, j, distance) ==
    {k \in keep : k # j /\ Abs(k - j) < distance}

RECURSIVE SelectByPeakDistance(_, _, _, _)
\* find_peaks, distance=min_distance: visit the peaks by priority; a peak
\* still kept removes its neighbours closer than distance.
SelectByPeakDistance(order, i, keep, distance) ==
    IF i > Len(order)
    THEN keep
    ELSE SelectByPeakDistance(
             order, i + 1,
             IF order[i] \in keep
             THEN keep \ Suppressed(keep, order[i], distance)
             ELSE keep,
             distance)

\* The peaks that pass the height condition of a detect_peaks call.
Candidates(c) ==
    AboveHeight(c.energy, LocalMaxima(c.energy),
                Percentile(c.energy, c.threshold_percentile))

RECURSIVE Ascending(_)
\* The indices of a set as the sorted array find_peaks returns.
Ascending(S) ==
    IF S = {} THEN <<>>
    ELSE Append(Ascending(S \ {CHOOSE m \in S : \A k \in S : k <= m}),
                CHOOSE m \in S : \A k \in S : k <= m)

PeakLevels == {Rat(k, LevelGrid) : k \in 0..LevelGrid}
PeakCurves == UNION {[1..n -> PeakLevels] : n \in 1..MaxPeakCurveLen}
\* The default percentile, and 0.
Percentiles == {0, 75}

PeakCalls ==
    {[fn |-> "detect_peaks", energy |-> e, threshold_percentile |-> q,
      min_distance |-> d] :
        e \in PeakCurves, q \in Percentiles, d \in 1..MaxDistance}

\* Raw energies: 0, 5e-9, 1e-8, 1/2 and 3.
RawEnergies == {Zero, Rat(1, 200000000), Rat(1, 100000000), Rat(1, 2), Rat(3, 1)}

RawCurves == UNION {[1..n -> RawEnergies] : n \in 1..MaxCurveLen}

NormalizeCalls == {[fn |-> "normalize_energy", energy |-> e] : e \in RawCurves}

\* normalize_energy is called on a raw curve.
InitNormalize ==
    /\ an_call \in NormalizeCalls
    /\ an_result = Pending
    /\ IdleRenderer /\ IdleEffects /\ IdleImage /\ IdleRun /\ IdleBand /\ IdleResample /\ IdleFolder /\ IdleSlider /\ IdleWebcam /\ IdleRace /\ IdleLoop

\* detect_peaks is called on a curve.
InitPeaks ==
    /\ an_call \in PeakCalls
    /\ an_result = Pending
    /\ IdleRenderer /\ IdleEffects /\ IdleImage /\ IdleRun /\ IdleBand /\ IdleResample /\ IdleFolder /\ IdleSlider /\ IdleWebcam /\ IdleRace /\ IdleLoop

NormalizeEnergyCall ==
    /\ an_result = Pending
    /\ an_call.fn = "normalize_energy"
    /\ an_result' = <<NormalizeEnergy(an_call.energy)>>
    /\ UNCHANGED <<an_call, exceptAnalyzer>>

\* threshold = np.percentile(...); peaks, _ = signal.find_peaks(...); return peaks
DetectPeaksCall ==
    /\ an_result = Pending
    /\ an_call.fn = "detect_peaks"
    /\ \E order \in PriorityOrders(an_call.energy, Candidates(an_call)) :
          an_result' =
              <<Ascending(SelectByPeakDistance(order, 1, Candidates(an_call),
                                               an_call.min_distance))>>
    /\ UNCHANGED <<an_call, exceptAnalyzer>>

NextNormalize ==
    \/ NormalizeEnergyCall

SpecNormalize == InitNormalize /\ [][NextNormalize]_vars

NextPeaks ==
    \/ DetectPeaksCall

SpecPeaks == InitPeaks /\ [][NextPeaks]_vars

Normalized == an_call.fn = "normalize_energy" /\ an_result # Pending

\* The input varies by less than 1e-8: no two entries are 1e-8 or more apart.
VariesLittle(energy) ==
    \A i \in 1..Len(energy), j \in 1..Len(energy) :
        RLt(RSub(energy[i], energy[j]), NoVariation)

\* C13: for every non-empty raw energy array normalize_energy returns an array
\* of the same length with every value in [0,1]; the result is all zeros
\* exactly when max - min of the input is below 1e-8, and otherwise every
\* minimum of the input maps to 0 and every maximum to 1.
C13_NormalizedRange ==
    Normalized => \A normalized \in {an_result[1]} :
        /\ Len(normalized) = Len(an_call.energy)
        /\ \A i \in 1..Len(normalized) : InUnit(normalized[i])
        /\ (\A i \in 1..Len(normalized) : normalized[i] = Zero)
              <=> VariesLittle(an_call.energy)
        /\ ~VariesLittle(an_call.energy) =>
              \A i \in 1..Len(normalized) :
                  /\ (\A j \in 1..Len(normalized) :
                         RLe(an_call.energy[i], an_call.energy[j]))
                        => normalized[i] = Zero
                  /\ (\A j \in 1..Len(normalized) :
                         RLe(an_call.energy[j], an_call.energy[i]))
                        => normalized[i] = One

\* C13 witness: a curve whose max - min is exactly 1e-8 has been rescaled, the
\* entry between its ends to 1/2.
C13_Witness ==
    /\ Normalized
    /\ an_call.energy = <<Rat(1, 100000000), Zero, Rat(1, 200000000)>>
    /\ an_result = <<(<<One, Zero, Rat(1, 2)>>)>>

Detected == an_call.fn = "detect_peaks" /\ an_result # Pending

\* C14: the indices detect_peaks returns are strictly increasing, consecutive
\* ones differ by at least min_distance, and each is an interior sample that
\* neither neighbour exceeds and whose value is at least the given percentile
\* of the curve.
C14_PeaksSortedSpacedAndHigh ==
    Detected => \A peaks \in {an_result[1]} :
        /\ \A i \in 1..Len(peaks) - 1 :
              /\ peaks[i] < peaks[i + 1]
              /\ peaks[i + 1] - peaks[i] >= an_call.min_distance
        /\ \A i \in 1..Len(peaks) :
              /\ peaks[i] \in 1..Len(an_call.energy) - 2
              /\ RLe(At(an_call.energy, peaks[i] - 1), At(an_call.energy, peaks[i]))
              /\ RLe(At(an_call.energy, peaks[i] + 1), At(an_call.energy, peaks[i]))
              /\ RLe(Percentile(an_call.energy, an_call.threshold_percentile),
                     At(an_call.energy, peaks[i]))

\* C14 witness: a call with min_distance 3 on a curve with three local
\* maxima two samples apart has returned the outer two.
C14_Witness ==
    /\ Detected
    /\ an_call.min_distance = 3
    /\ LocalMaxima(an_call.energy) = {1, 3, 5}
    /\ an_result = <<(<<1, 5>>)>>

\* Two above-threshold local maxima p < q of the call's curve.
PeakPair(p, q) == p \in Candidates(an_call) /\ q \in Candidates(an_call) /\ p < q

\* No other above-threshold local maximum is closer than min_distance to p or q.
Isolated(p, q) ==
    \A k \in Candidates(an_call) \ {p, q} :
        Abs(k - p) >= an_call.min_distance /\ Abs(k - q) >= an_call.min_distance

InResult(p) == \E i \in 1..Len(an_result[1]) : an_result[1][i] = p

Higher(p, q) == RLt(At(an_call.energy, q), At(an_call.energy, p))

\* C15 (as stated): whenever a curve has two above-threshold local maxima
\* exactly min_distance apart, both are returned; whenever they are
\* min_distance - 1 apart, the higher is returned and the lower is not.
C15_PairRuleOnEveryCurve ==
    Detected =>
        \A p \in Candidates(an_call), q \in Candidates(an_call) :
            /\ (p < q /\ q - p = an_call.min_distance) => (InResult(p) /\ InResult(q))
            /\ (p # q /\ Abs(q - p) = an_call.min_distance - 1 /\ Higher(p, q)) =>
                  (InResult(p) /\ ~InResult(q))

\* C15 (amended): the rule holds for two above-threshold local maxima that
\* have no other above-threshold local maximum closer than min_distance to
\* either of them.
C15_PairRuleForIsolatedPair ==
    Detected =>
        \A p \in Candidates(an_call), q \in Candidates(an_call) :
            /\ (p < q /\ q - p = an_call.min_distance /\ Isolated(p, q)) =>
                  (InResult(p) /\ InResult(q))
            /\ (p # q /\ Abs(q - p) = an_call.min_distance - 1 /\ Higher(p, q)
                  /\ Isolated(p, q)) =>
                  (InResult(p) /\ ~InResult(q))

\* C15 witness: the only two above-threshold local maxima are min_distance - 1
\* apart and of different height, and only the higher one has been returned.
C15_Witness ==
    /\ Detected
    /\ an_call.min_distance = 3
    /\ Candidates(an_call) = {2, 4}
    /\ Higher(4, 2)
    /\ an_result = <<(<<4>>)>>

\* ---------------------------------------------------------------------
\* ImageToVideoProcessor: the number of frames of the output
\* ---------------------------------------------------------------------

ModelSampleRate == 10   \* sr of the loaded audio
MaxSamples == 50        \* len(y) of the loaded audio

FrameRates == {Rat(24, 1), Rat(30, 1)}

\* int(x) for x >= 0
IntOf(x) == x[1] \div x[2]

\* round(x) for x >= 0: the nearest integer, a tie to the even one
RoundOf(x) ==
    IF 2 * (x[1] % x[2]) < x[2] THEN x[1] \div x[2]
    ELSE IF 2 * (x[1] % x[2]) > x[2] THEN (x[1] \div x[2]) + 1
    ELSE (x[1] \div x[2]) + ((x[1] \div x[2]) % 2)

\* self.total_frames = int(self.audio_duration * fps)
TotalFramesOf(audio_duration, fps) == IntOf(RMul(audio_duration, fps))

\* y, sr = librosa.load(...); the caller's fps
InitImage ==
    /\ i2v_args \in [len_y : 0..MaxSamples, sr : {ModelSampleRate}, fps : FrameRates]
    /\ i2v_self = <<>>
    /\ i2v_frames = <<>>
    /\ i2v_released = FALSE
    /\ IdleRenderer /\ IdleEffects /\ IdleAnalyzer /\ IdleRun /\ IdleBand /\ IdleResample /\ IdleFolder /\ IdleSlider /\ IdleWebcam /\ IdleRace /\ IdleLoop

\* __init__: audio_duration = len(y) / sr, total_frames
ImageConstruct ==
    /\ i2v_self = <<>>
    /\ i2v_self' =
          <<[audio_duration |-> Rat(i2v_args.len_y, i2v_args.sr),
             fps |-> i2v_args.fps,
             total_frames |-> TotalFramesOf(Rat(i2v_args.len_y, i2v_args.sr),
                                            i2v_args.fps)]>>
    /\ UNCHANGED <<i2v_args, i2v_frames, i2v_released, exceptImage>>

\* process_image_to_video: one iteration of `for frame_idx in
\* range(self.total_frames)`, ending in out.write(frame)
ImageWriteFrame ==
    /\ i2v_self # <<>>
    /\ ~i2v_released
    /\ Len(i2v_frames) < i2v_self[1].total_frames
    /\ i2v_frames' = Append(i2v_frames, Len(i2v_frames))
    /\ UNCHANGED <<i2v_args, i2v_self, i2v_released, exceptImage>>

\* process_image_to_video: the loop is exhausted; out.release()
ImageRelease ==
    /\ i2v_self # <<>>
    /\ ~i2v_released
    /\ Len(i2v_frames) = i2v_self[1].total_frames
    /\ i2v_released' = TRUE
    /\ UNCHANGED <<i2v_args, i2v_self, i2v_frames, exceptImage>>

NextImage ==
    \/ ImageConstruct
    \/ ImageWriteFrame
    \/ ImageRelease

SpecImage == InitImage /\ [][NextImage]_vars

\* C16: once the writer is released, the number of frames written is
\* round(D * f) for audio duration D and frame rate f.
C16_FrameCountIsRounded ==
    (i2v_released = TRUE) =>
        Len(i2v_frames) = RoundOf(RMul(i2v_self[1].audio_duration, i2v_self[1].fps))

\* ---------------------------------------------------------------------
\* One render run from start to final report: the command line program
\* (audio_reactive_video.main), the GUI render thread
\* (_process_full_video_thread) and a webcam session with one recording.
\* ---------------------------------------------------------------------

RunFrames == 2          \* frames of the media a render run processes
MaxWebcamFrames == 3    \* frames the webcam loop captures in a session

\* What the merge tool can do: exit 0, exit nonzero, or fail to start.
MergeExits == {"ok", "failed"}
MergeOutcomes == MergeExits \cup {"not_started"}

\* The files inside the TemporaryDirectory of a run.
TmpFiles == {"extracted_audio", "video_no_audio"}

Report(state, path, reason) == [state |-> state, path |-> path, reason |-> reason]
Success(path) == Report("success", path, "")
Failure(reason) == Report("failure", "", reason)

\* argparse results: input kind, --enhanced, --zoom, --duration,
\* --intensity-sensitivity, --smoothness; the frequency ranges keep their
\* (valid) defaults.
CliArgs ==
    [is_image : BOOLEAN, enhanced : BOOLEAN,
     zoom : {Rat(9, 10), One, Rat(13, 10)},
     duration : {Zero, Rat(1, 2)},
     intensity_sensitivity : {Rat(-1, 10), Rat(7, 10), One, Rat(3, 2)},
     smoothness : {Rat(-1, 10), Rat(8, 10), Rat(11, 10)}]

\* self.mode and whether a video is loaded, when the render thread starts
GuiArgs == [media : {"video", "image"}, video_loaded : BOOLEAN]

\* Whether audio is loaded, and whether it has been analysed
WebcamArgs == {a \in [audio_loaded : BOOLEAN, analysed : BOOLEAN] :
                  a.analysed => a.audio_loaded}

OutsideUnit(x) == RLt(x, Zero) \/ RLt(One, x)

\* main, "Validate parameters": some check prints an error and exits 1
CliRejects(args) ==
    \/ RLt(args.zoom, One)
    \/ ~args.enhanced /\ RLe(args.duration, Zero)
    \/ args.enhanced /\ OutsideUnit(args.intensity_sensitivity)
    \/ args.enhanced /\ OutsideUnit(args.smoothness)

InitRun ==
    /\ \/ run_kind = "cli" /\ run_args \in CliArgs /\ run_pc = "validate"
       \/ run_kind = "gui_render" /\ run_args \in GuiArgs /\ run_pc = "start"
       \/ run_kind = "webcam" /\ run_args \in WebcamArgs /\ run_pc = "preview"
    /\ run_steps = <<>>
    /\ run_frames = <<>>
    /\ run_errors = {}
    /\ run_files = {}
    /\ run_merge = <<>>
    /\ run_final = <<>>
    /\ IdleRenderer /\ IdleEffects /\ IdleAnalyzer /\ IdleImage /\ IdleBand /\ IdleResample /\ IdleFolder /\ IdleSlider /\ IdleWebcam /\ IdleRace /\ IdleLoop

\* ---- audio_reactive_video.main ----

CliValidate ==
    /\ run_kind = "cli" /\ run_pc = "validate"
    /\ IF CliRejects(run_args)
       THEN /\ run_final' = Append(run_final, Failure("invalid argument"))
            /\ run_pc' = "exit"
       ELSE /\ run_pc' = IF run_args.is_image THEN "analyze" ELSE "extract"
            /\ UNCHANGED run_final
    /\ UNCHANGED <<run_kind, run_args, run_steps, run_frames, run_errors,
                   run_files, run_merge, exceptRun>>

\* extract_audio; a nonzero exit raises, the with block removes tmpdir
CliExtractAudio ==
    /\ run_kind = "cli" /\ run_pc = "extract"
    /\ run_steps' = Append(run_steps, "extract_audio")
    /\ \E outcome \in MergeExits :
          IF outcome = "ok"
          THEN /\ run_files' = run_files \cup {"extracted_audio"}
               /\ run_pc' = "analyze"
               /\ UNCHANGED run_final
          ELSE /\ run_files' = run_files \ TmpFiles
               /\ run_final' = Append(run_final, Failure("Failed to extract audio"))
               /\ run_pc' = "exit"
    /\ UNCHANGED <<run_kind, run_args, run_frames, run_errors, run_merge,
                   exceptRun>>

\* AudioAnalyzer(...).analyze / analyze_enhanced
CliAnalyze ==
    /\ run_kind = "cli" /\ run_pc = "analyze"
    /\ run_steps' = Append(run_steps, "analyze")
    /\ run_pc' = "render"
    /\ UNCHANGED <<run_kind, run_args, run_frames, run_errors, run_files,
                   run_merge, run_final, exceptRun>>

\* process_image_to_video / process_video_enhanced / process_video: every
\* frame is written, unless the effects of a frame raise, which ends main
CliRender ==
    /\ run_kind = "cli" /\ run_pc = "render"
    /\ run_steps' = Append(run_steps, "render")
    /\ \E raised \in {RunFrames} \cup 0..(RunFrames - 1) :
          IF raised = RunFrames
          THEN /\ run_frames' = [i \in 1..RunFrames |-> "processed"]
               /\ run_files' = run_files \cup {"video_no_audio"}
               /\ run_pc' = "merge"
               /\ UNCHANGED <<run_errors, run_final>>
          ELSE /\ run_frames' = [i \in 1..raised |-> "processed"]
               /\ run_errors' = run_errors \cup {raised}
               /\ run_files' = run_files \ TmpFiles
               /\ run_final' = Append(run_final, Failure("effect error"))
               /\ run_pc' = "exit"
    /\ UNCHANGED <<run_kind, run_args, run_merge, exceptRun>>

\* merge_audio_video raises on a nonzero exit; leaving the with block
\* removes tmpdir either way
CliMerge ==
    /\ run_kind = "cli" /\ run_pc = "merge"
    /\ run_steps' = Append(run_steps, "merge")
    /\ \E outcome \in MergeExits :
          /\ run_merge' = <<outcome>>
          /\ IF outcome = "ok"
             THEN /\ run_files' = (run_files \cup {"output"}) \ TmpFiles
                  /\ run_final' = Append(run_final, Success("output"))
             ELSE /\ run_files' = run_files \ TmpFiles
                  /\ run_final' = Append(run_final, Failure("Failed to merge audio"))
    /\ run_pc' = "exit"
    /\ UNCHANGED <<run_kind, run_args, run_frames, run_errors, exceptRun>>

\* ---- SoundReactiveGUI._process_full_video_thread ----

\* Up to the frame loop: the image processor is built, or the audio of the
\* video is extracted, or there is no video
GuiRenderStart ==
    /\ run_kind = "gui_render" /\ run_pc = "start"
    /\ \/ /\ run_args.media = "image"
          /\ run_pc' = "render"
          /\ UNCHANGED <<run_steps, run_files, run_final>>
       \/ /\ run_args.media = "video" /\ run_args.video_loaded
          /\ run_steps' = Append(run_steps, "extract_audio")
          /\ \E outcome \in MergeExits :
                IF outcome = "ok"
                THEN /\ run_files' = run_files \cup {"extracted_audio"}
                     /\ run_pc' = "render"
                     /\ UNCHANGED run_final
                ELSE /\ run_files' = run_files \ TmpFiles
                     /\ run_final' = Append(run_final, Failure("Failed to extract audio"))
                     /\ run_pc' = "done"
       \/ /\ run_args.media = "video" /\ ~run_args.video_loaded
          /\ run_final' = Append(run_final, Failure("Please load a video file first"))
          /\ run_pc' = "done"
          /\ UNCHANGED <<run_steps, run_files>>
    /\ UNCHANGED <<run_kind, run_args, run_frames, run_errors, run_merge,
                   exceptRun>>

\* One iteration of the frame loop of _process_image_to_video_with_progress
\* or _process_video_with_progress: the effects are applied outside any try,
\* so an error reaches the except clause of the thread
GuiRenderFrame ==
    /\ run_kind = "gui_render" /\ run_pc = "render"
    /\ Len(run_frames) < RunFrames
    /\ run_steps' = IF Len(run_frames) = 0 THEN Append(run_steps, "render") ELSE run_steps
    /\ \E raises \in BOOLEAN :
          IF raises
          THEN /\ run_errors' = run_errors \cup {Len(run_frames)}
               /\ run_files' = run_files \ TmpFiles
               /\ run_final' = Append(run_final, Failure("Failed to process video"))
               /\ run_pc' = "done"
               /\ UNCHANGED run_frames
          ELSE /\ run_frames' = Append(run_frames, "processed")
               /\ UNCHANGED <<run_errors, run_files, run_final, run_pc>>
    /\ UNCHANGED <<run_kind, run_args, run_merge, exceptRun>>

\* The loop is exhausted: out.release()
GuiRenderEnd ==
    /\ run_kind = "gui_render" /\ run_pc = "render"
    /\ Len(run_frames) = RunFrames
    /\ run_files' = run_files \cup {"video_no_audio"}
    /\ run_pc' = "merge"
    /\ UNCHANGED <<run_kind, run_args, run_steps, run_frames, run_errors,
                   run_merge, run_final, exceptRun>>

\* _merge_audio_video runs the tool and ignores its exit code; the thread
\* then reports success; an exception (the tool cannot be started) reaches
\* the except clause; tmpdir is removed either way
GuiMerge ==
    /\ run_kind = "gui_render" /\ run_pc = "merge"
    /\ run_steps' = Append(run_steps, "merge")
    /\ \E outcome \in MergeOutcomes :
          /\ run_merge' = <<outcome>>
          /\ run_files' =
                (IF outcome = "ok" THEN run_files \cup {"output"} ELSE run_files)
                    \ TmpFiles
          /\ run_final' =
                Append(run_final,
                       IF outcome = "not_started"
                       THEN Failure("Failed to process video")
                       ELSE Success("output"))
    /\ run_pc' = "done"
    /\ UNCHANGED <<run_kind, run_args, run_frames, run_errors, exceptRun>>

\* ---- webcam session ----

\* One iteration of _webcam_capture_loop: effects are applied inside a try
\* when audio has been analysed; on an error the original frame is used
WebcamFrame ==
    /\ run_kind = "webcam" /\ run_pc \in {"preview", "recording"}
    /\ Len(run_frames) < MaxWebcamFrames
    /\ \E raises \in {r \in BOOLEAN : r => run_args.analysed} :
          /\ run_frames' =
                Append(run_frames,
                       IF run_args.analysed /\ ~raises THEN "processed" ELSE "original")
          /\ run_errors' = IF raises THEN run_errors \cup {Len(run_frames)} ELSE run_errors
    /\ UNCHANGED <<run_kind, run_args, run_pc, run_steps, run_files, run_merge,
                   run_final, exceptRun>>

\* toggle_webcam_recording, not recording: the writer is opened on the path
\* the user chose
WebcamStartRecording ==
    /\ run_kind = "webcam" /\ run_pc = "preview"
    /\ run_steps' = Append(run_steps, "record")
    /\ run_pc' = "recording"
    /\ UNCHANGED <<run_kind, run_args, run_frames, run_errors, run_files,
                   run_merge, run_final, exceptRun>>

\* toggle_webcam_recording, recording: the writer is released; with audio
\* loaded _merge_audio_video_looped runs and raises on failure, which is
\* caught and reported with the path of the recording
WebcamStopRecording ==
    /\ run_kind = "webcam" /\ run_pc = "recording"
    /\ IF run_args.audio_loaded
       THEN /\ run_steps' = Append(run_steps, "merge")
            /\ \E outcome \in MergeExits :
                  /\ run_merge' = <<outcome>>
                  /\ IF outcome = "ok"
                     THEN /\ run_files' = run_files \cup {"recording", "recording_with_audio"}
                          /\ run_final' = Append(run_final, Success("recording_with_audio"))
                     ELSE /\ run_files' = run_files \cup {"recording"}
                          /\ run_final' =
                                Append(run_final,
                                       Report("warning", "recording", "Failed to merge audio"))
       ELSE /\ run_files' = run_files \cup {"recording"}
            /\ run_final' = Append(run_final, Success("recording"))
            /\ UNCHANGED <<run_steps, run_merge>>
    /\ run_pc' = "stopped"
    /\ UNCHANGED <<run_kind, run_args, run_frames, run_errors, exceptRun>>

NextRun ==
    \/ CliValidate
    \/ CliExtractAudio
    \/ CliAnalyze
    \/ CliRender
    \/ CliMerge
    \/ GuiRenderStart
    \/ GuiRenderFrame
    \/ GuiRenderEnd
    \/ GuiMerge
    \/ WebcamFrame
    \/ WebcamStartRecording
    \/ WebcamStopRecording

SpecRun == InitRun /\ [][NextRun]_vars

RunEnded == run_pc \in {"exit", "done", "stopped"}

\* C17: when a run has ended after the merge tool exited nonzero, a file
\* holding the rendered video without audio still exists outside the
\* temporary directory and the final report names it.
C17_VideoSurvivesMergeFailure ==
    (RunEnded /\ run_merge = <<"failed">>) =>
        /\ Len(run_final) > 0
        /\ run_final[Len(run_final)].path \in {"video_no_audio", "recording"}
        /\ run_final[Len(run_final)].path \in run_files

\* C18: a GUI render job makes at most one final report, exactly one once it
\* has ended, either a success with the output path or a failure with a
\* reason; a success only after the merge tool exited with code zero and the
\* output file exists.
C18_OneFinalStateSuccessOnlyAfterMerge ==
    run_kind = "gui_render" =>
        /\ Len(run_final) <= 1
        /\ RunEnded => Len(run_final) = 1
        /\ \A i \in 1..Len(run_final) :
              \/ /\ run_final[i].state = "success"
                 /\ run_final[i].path = "output"
                 /\ run_merge = <<"ok">>
                 /\ "output" \in run_files
              \/ /\ run_final[i].state = "failure"
                 /\ run_final[i].reason # ""

\* The mode selected uses a parameter whose value is out of range: zoom
\* below 1.0 in any mode; intensity sensitivity or smoothness outside [0,1]
\* in enhanced and in image mode.
CliInvalid(args) ==
    \/ RLt(args.zoom, One)
    \/ /\ args.enhanced \/ args.is_image
       /\ OutsideUnit(args.intensity_sensitivity) \/ OutsideUnit(args.smoothness)

\* C19: a command line run with an out-of-range parameter its mode uses
\* starts no extraction, analysis or rendering step and exits with an error.
C19_InvalidArgumentsStartNothing ==
    (run_kind = "cli" /\ CliInvalid(run_args)) =>
        /\ run_steps = <<>>
        /\ run_pc = "exit" =>
              (Len(run_final) = 1 /\ run_final[1].state = "failure")

\* C20: every frame whose effects raised an error has been emitted
\* unmodified, so the run went on past it.
C20_EffectErrorPassesFrameThrough ==
    \A i \in run_errors :
        i < Len(run_frames) /\ run_frames[i + 1] = "original"

\* ---------------------------------------------------------------------
\* AudioAnalyzer.analyze_multiple_bands: which spectrogram bins each of the
\* five named bands sums
\* ---------------------------------------------------------------------

\* The default ranges of analyze_multiple_bands, in dict order.
DefaultRanges ==
    <<[band |-> "sub_bass", fmin |-> 20, fmax |-> 60],
      [band |-> "bass", fmin |-> 60, fmax |-> 250],
      [band |-> "mid", fmin |-> 250, fmax |-> 2000],
      [band |-> "treble", fmin |-> 2000, fmax |-> 6000],
      [band |-> "high_treble", fmin |-> 6000, fmax |-> 12000]>>

SampleRates == {8000, 11025, 16000, 22050, 32000, 44100, 48000}
FftSizes == {512, 1024, 2048, 4096}

\* librosa.fft_frequencies: bin k has centre frequency k * sr / n_fft,
\* k = 0 .. n_fft / 2
Bins(n_fft) == 0..(n_fft \div 2)

\* freq_mask = (freqs >= fmin) & (freqs <= fmax), as the set of bins it selects
FreqMask(sr, n_fft, fmin, fmax) ==
    {k \in Bins(n_fft) : k * sr >= fmin * n_fft /\ k * sr <= fmax * n_fft}

InitBands ==
    /\ bd_args \in [sr : SampleRates, n_fft : FftSizes]
    /\ bd_masks = <<>>
    /\ IdleRenderer /\ IdleEffects /\ IdleAnalyzer /\ IdleImage /\ IdleRun /\ IdleResample /\ IdleFolder /\ IdleSlider /\ IdleWebcam /\ IdleRace /\ IdleLoop

\* One iteration of `for band_name, freq_range in bands.items()`:
\* extract_frequency_band_energy builds the mask of the band and sums over it
ExtractBand ==
    /\ Len(bd_masks) < Len(DefaultRanges)
    /\ \E r \in {DefaultRanges[Len(bd_masks) + 1]} :
          bd_masks' =
              Append(bd_masks,
                     [band |-> r.band,
                      bins |-> FreqMask(bd_args.sr, bd_args.n_fft, r.fmin, r.fmax)])
    /\ UNCHANGED <<bd_args, exceptBand>>

NextBands ==
    \/ ExtractBand

SpecBands == InitBands /\ [][NextBands]_vars

\* C21: with the default ranges no spectrogram bin is in the mask of more
\* than one of the five bands; a bin on a shared boundary is only in the
\* upper band's mask.
C21_BinInAtMostOneBand ==
    \A i \in 1..Len(bd_masks), j \in 1..Len(bd_masks) :
        i < j => bd_masks[i].bins \cap bd_masks[j].bins = {}

\* ---------------------------------------------------------------------
\* Batch renderers: a band curve is resampled to the output frames before
\* the loop, and the loop reads entry frame_idx
\* ---------------------------------------------------------------------

\* A normalized curve over the spectrogram frames: levels 0, 1/2, 1 in turn,
\* `stride` frames each.
Staircase(phase, stride) ==
    [k \in 0..LastSpectrogramFrame |-> Rat(((k \div stride) + phase) % 3, 2)]

\* window_size = max(1, int(smoothness * 5))
WindowSize(smoothness) ==
    IF IntOf(RMul(smoothness, Rat(5, 1))) > 1
    THEN IntOf(RMul(smoothness, Rat(5, 1)))
    ELSE 1

RECURSIVE SumOver(_, _, _)
\* x[lo] + ... + x[hi] over the entries that exist (0-based)
SumOver(x, lo, hi) ==
    IF lo > hi THEN Zero
    ELSE RAdd(IF lo >= 0 /\ lo < Len(x) THEN x[lo + 1] ELSE Zero,
              SumOver(x, lo + 1, hi))

\* np.convolve(x, np.ones(w) / w, mode='same'), Len(x) >= w
MovingAverage(x, w) ==
    [i \in 1..Len(x) |->
        RDiv(SumOver(x, (i - 1) - (w \div 2), (i - 1) + ((w - 1) \div 2)),
             Rat(w, 1))]

\* np.interp(np.linspace(0, duration, total_frames), frame_times, curve)
InterpToFrames(curve) ==
    [i \in 1..TotalFrames |-> Interp(LinspaceTime(i - 1), curve)]

\* The resampled curve the loop reads: interpolated, then smoothed when
\* smoothness > 0.0 and the window is wider than one entry
ResampleCurve(curve, smoothness) ==
    IF RLt(Zero, smoothness) /\ WindowSize(smoothness) > 1
    THEN MovingAverage(InterpToFrames(curve), WindowSize(smoothness))
    ELSE InterpToFrames(curve)

InitResample ==
    /\ rs_call \in [renderer : {"video_enhanced", "image_to_video"},
                    curve : {Staircase(p, st) : p \in 0..2, st \in 1..3},
                    smoothness : {sm \in {Zero, Rat(1, 5), Rat(2, 5), Rat(1, 2)} :
                                     WindowSize(sm) <= TotalFrames}]
    /\ rs_interp = <<>>
    /\ rs_reads = <<>>
    /\ IdleRenderer /\ IdleEffects /\ IdleAnalyzer /\ IdleImage /\ IdleRun /\ IdleBand /\ IdleFolder /\ IdleSlider /\ IdleWebcam /\ IdleRace /\ IdleLoop

\* Before the loop: video_frame_times, np.interp, the moving average
Resample ==
    /\ rs_interp = <<>>
    /\ rs_interp' = <<ResampleCurve(rs_call.curve, rs_call.smoothness)>>
    /\ UNCHANGED <<rs_call, rs_reads, exceptResample>>

\* One iteration of the loop: bass_val = bass_interp[frame_idx];
\* current_time = frame_idx / fps
ResampleRead ==
    /\ rs_interp # <<>>
    /\ Len(rs_reads) < TotalFrames
    /\ rs_reads' =
          Append(rs_reads,
                 [frame_idx |-> Len(rs_reads),
                  val |-> rs_interp[1][Len(rs_reads) + 1],
                  current_time |-> FrameTimeOf(Len(rs_reads))])
    /\ UNCHANGED <<rs_call, rs_interp, exceptResample>>

NextResample ==
    \/ Resample
    \/ ResampleRead

SpecResample == InitResample /\ [][NextResample]_vars

\* C22: the band value a batch renderer uses for frame i is the band curve
\* linearly interpolated at t = i/fps, the time the frame uses for beat and
\* snare proximity.
C22_BandValueSampledAtFrameTime ==
    \A n \in 1..Len(rs_reads) :
        /\ rs_reads[n].current_time = RDiv(Rat(rs_reads[n].frame_idx, 1), ModelFps)
        /\ rs_reads[n].val = Interp(rs_reads[n].current_time, rs_call.curve)


\* ---------------------------------------------------------------------------
\* Folder mode: _process_image_to_video_with_progress, several images
\* ---------------------------------------------------------------------------
MaxImages == 3          \* image files found in the folder
MaxHalfSeconds == 8     \* audio duration, in half seconds

FolderDurations == {Rat(k, 2) : k \in 1..MaxHalfSeconds}
FolderRates == {Rat(2, 1), Rat(4, 1)}

\* crossfade_duration = 1.0
CrossfadeDuration == One

\* loaded_images: the files cv2.imread could read, in the order of image_list
LoadedImages(num_images, readable) ==
    SelectSeq([i \in 1..num_images |-> i], LAMBDA i : i \in readable)

\* duration_per_image = processor.audio_duration / num_images
DurationPerImage(job) == RDiv(job.audio_duration, Rat(job.num_images, 1))

\* image_index = min(int(current_time / duration_per_image), len(loaded_images) - 1)
ImageIndex(job, loaded, current_time) ==
    IF IntOf(RDiv(current_time, DurationPerImage(job))) < Len(loaded) - 1
    THEN IntOf(RDiv(current_time, DurationPerImage(job)))
    ELSE Len(loaded) - 1

\* segment_time = current_time - image_index * duration_per_image
SegmentTime(job, image_index, current_time) ==
    RSub(current_time, RMul(Rat(image_index, 1), DurationPerImage(job)))

\* image_index < len(loaded_images) - 1 and
\* segment_time > (duration_per_image - crossfade_duration)
InCrossfade(job, loaded, image_index, segment_time) ==
    /\ image_index < Len(loaded) - 1
    /\ RLt(RSub(DurationPerImage(job), CrossfadeDuration), segment_time)

\* fade_progress, clipped to [0, 1]
FadeProgress(job, segment_time) ==
    Clip(RDiv(RSub(segment_time, RSub(DurationPerImage(job), CrossfadeDuration)),
              CrossfadeDuration),
         Zero, One)

\* The base frame of one iteration: the image, or the two images and alpha
\* handed to _crossfade_images
BaseFrameAt(job, loaded, frame, image_index, current_time) ==
    [frame_idx |-> frame,
     current_time |-> current_time,
     image_index |-> image_index,
     blended |-> InCrossfade(job, loaded, image_index,
                             SegmentTime(job, image_index, current_time)),
     alpha |-> IF InCrossfade(job, loaded, image_index,
                              SegmentTime(job, image_index, current_time))
               THEN FadeProgress(job, SegmentTime(job, image_index, current_time))
               ELSE Zero,
     img1 |-> loaded[image_index + 1],
     img2 |-> IF image_index < Len(loaded) - 1
              THEN loaded[image_index + 2]
              ELSE loaded[image_index + 1]]

BaseFrame(job, loaded, frame) ==
    BaseFrameAt(job, loaded, frame,
                ImageIndex(job, loaded, RDiv(Rat(frame, 1), job.fps)),
                RDiv(Rat(frame, 1), job.fps))

InitFolder ==
    /\ fd_job \in [num_images : 2..MaxImages,
                   readable : SUBSET (1..MaxImages),
                   audio_duration : FolderDurations,
                   fps : FolderRates]
    /\ fd_job.readable \subseteq 1..fd_job.num_images
    /\ fd_loaded = <<>>
    /\ fd_frames = <<>>
    /\ IdleRenderer /\ IdleEffects /\ IdleAnalyzer /\ IdleImage /\ IdleRun /\ IdleBand /\ IdleResample /\ IdleSlider /\ IdleWebcam /\ IdleRace /\ IdleLoop

\* for img_path in self.image_list: img = cv2.imread(img_path); if img is not None: ...
FolderLoad ==
    /\ fd_loaded = <<>>
    /\ fd_loaded' = <<LoadedImages(fd_job.num_images, fd_job.readable)>>
    /\ UNCHANGED <<fd_job, fd_frames, exceptFolder>>

\* One iteration of for frame_idx in range(total_frames); no iteration when
\* no image loaded (the early return)
FolderFrame ==
    /\ fd_loaded # <<>>
    /\ Len(fd_loaded[1]) > 0
    /\ Len(fd_frames) < TotalFramesOf(fd_job.audio_duration, fd_job.fps)
    /\ fd_frames' = Append(fd_frames, BaseFrame(fd_job, fd_loaded[1], Len(fd_frames)))
    /\ UNCHANGED <<fd_job, fd_loaded, exceptFolder>>

NextFolder ==
    \/ FolderLoad
    \/ FolderFrame

SpecFolder == InitFolder /\ [][NextFolder]_vars

\* The segment length the statement names: D / N for N loaded images
StatedSegment == RDiv(fd_job.audio_duration, Rat(Len(fd_loaded[1]), 1))

StatedIndex(t) ==
    IF IntOf(RDiv(t, StatedSegment)) < Len(fd_loaded[1]) - 1
    THEN IntOf(RDiv(t, StatedSegment))
    ELSE Len(fd_loaded[1]) - 1

\* Time left from t to the end of the stated segment of index k
StatedRemaining(k, t) == RSub(RMul(Rat(k + 1, 1), StatedSegment), t)

StatedFrame(f) ==
    /\ f.image_index = StatedIndex(f.current_time)
    /\ f.img1 = fd_loaded[1][f.image_index + 1]
    /\ f.image_index = Len(fd_loaded[1]) - 1 => ~f.blended
    /\ f.blended =>
          /\ f.img2 = fd_loaded[1][f.image_index + 2]
          /\ RLt(StatedRemaining(f.image_index, f.current_time), CrossfadeDuration)
          /\ f.alpha = RSub(CrossfadeDuration,
                            StatedRemaining(f.image_index, f.current_time))
    /\ (~f.blended /\ f.image_index < Len(fd_loaded[1]) - 1) =>
          RLe(CrossfadeDuration, StatedRemaining(f.image_index, f.current_time))

\* C23: in folder mode with N >= 2 loaded images and audio duration D the
\* image index of the frame at time t is min(floor(t / (D/N)), N-1) and never
\* decreases; the base frame is that image alone except in the last second of
\* a segment that is not the final one, where it is blended with the next
\* image with alpha rising linearly from 0 to 1 at the segment end; the final
\* segment is never blended.
C23_FolderSegmentsAndCrossfade ==
    (fd_loaded # <<>> /\ Len(fd_loaded[1]) >= 2) =>
        /\ \A n \in 1..Len(fd_frames) : StatedFrame(fd_frames[n])
        /\ \A n \in 2..Len(fd_frames) :
              fd_frames[n - 1].image_index <= fd_frames[n].image_index


\* ---------------------------------------------------------------------------
\* The smoothness slider and the effect-smoothing slider
\* ---------------------------------------------------------------------------
MaxSliderEvents == 3    \* slider movements in a session

\* Positions the session moves a slider to (both sliders run 0..100)
SliderPositions == {0, 30, 50, 80, 100}

\* update_preview -> get_effect_parameters -> apply_temporal_smoothing for one
\* enabled effect, and what the call used
SliderPreview(control, eff_slider, smooth_slider, factor, r) ==
    /\ prev_effect_intensities' = r.prev
    /\ slider_log' =
          Append(slider_log,
                 [control |-> control,
                  effect_smoothing |-> eff_slider,
                  smoothness |-> smooth_slider,
                  blended |-> "pixel_sort" \in DOMAIN prev_effect_intensities,
                  factor_before |-> effect_smoothing_factor,
                  factor |-> factor,
                  out |-> r.out])

InitSliders ==
    /\ effect_smoothing_slider = 30
    /\ smoothness_slider = 80
    /\ slider_log = <<>>
    /\ IdleRenderer /\ IdleEffects /\ IdleAnalyzer /\ IdleImage /\ IdleRun /\ IdleBand /\ IdleResample /\ IdleFolder /\ IdleWebcam /\ IdleRace /\ IdleLoop

\* valueChanged of effect_smoothing_slider: on_effect_smoothing_change(value)
SliderEffectSmoothingChange(value, intensity) ==
    /\ Len(slider_log) < MaxSliderEvents
    /\ value # effect_smoothing_slider
    /\ effect_smoothing_slider' = value
    /\ effect_smoothing_factor' = Rat(value, 100)
    /\ SliderPreview("effect_smoothing", value, smoothness_slider, Rat(value, 100),
                     ApplyTemporalSmoothing(prev_effect_intensities, Rat(value, 100),
                                            "pixel_sort", intensity))
    /\ UNCHANGED <<smoothness_slider, exceptSliderGui>>

\* valueChanged of smoothness_slider: on_smoothness_change(value)
SliderSmoothnessChange(value, intensity) ==
    /\ Len(slider_log) < MaxSliderEvents
    /\ value # smoothness_slider
    /\ smoothness_slider' = value
    /\ effect_smoothing_factor' = Rat(value, 100)
    /\ SliderPreview("smoothness", effect_smoothing_slider, value, Rat(value, 100),
                     ApplyTemporalSmoothing(prev_effect_intensities, Rat(value, 100),
                                            "pixel_sort", intensity))
    /\ UNCHANGED <<effect_smoothing_slider, exceptSliderGui>>

NextSliders ==
    \/ \E value \in SliderPositions, intensity \in {Zero, One} :
          SliderEffectSmoothingChange(value, intensity)
    \/ \E value \in SliderPositions, intensity \in {Zero, One} :
          SliderSmoothnessChange(value, intensity)

SpecSliders == InitSliders /\ [][NextSliders]_vars

\* C24: the smoothness setting and the effect (temporal) smoothing factor are
\* independent: a change of smoothness leaves the factor apply_temporal_smoothing
\* uses unchanged, and that factor is always the last value set on the
\* effect-smoothing control.
C24_SmoothnessLeavesFactorAlone ==
    /\ effect_smoothing_factor = Rat(effect_smoothing_slider, 100)
    /\ \A n \in 1..Len(slider_log) :
          /\ slider_log[n].factor = Rat(slider_log[n].effect_smoothing, 100)
          /\ slider_log[n].control = "smoothness" =>
                slider_log[n].factor = slider_log[n].factor_before


\* ---------------------------------------------------------------------------
\* The callers of apply_effects
\* ---------------------------------------------------------------------------
Callers == {"gui_preview", "gui_render", "image_to_video", "legacy_cli", "enhanced_cli"}
GuiCallers == {"gui_preview", "gui_render"}

\* blend_mode_combo.currentText().lower() and opacity_slider.value() / 100.0
BlendSelections ==
    [blend_mode : {"direct", "multiply", "screen", "overlay", "soft light"},
     layer_opacity : Opacities]

\* Mutation: the GUI callers hand the combo box's mode on as a layer mode.
CallerMode_LayerInGui(caller) ==
    IF caller \in GuiCallers THEN "layer" ELSE "direct"

\* The effect_mode argument of the call: effect_mode="direct" in the GUI and
\* in image_to_video, the default "direct" in process_video and
\* process_video_enhanced
CallerMode(caller) == "direct"

\* The blend_mode and layer_opacity arguments: the GUI's selection, "normal"
\* and 1.0 elsewhere (written out or by default)
CallerBlend(caller, sel) ==
    IF caller \in GuiCallers
    THEN sel
    ELSE [blend_mode |-> "normal", layer_opacity |-> One]

\* The effect intensities a caller can hand on above 0.0
CallerStages(caller) ==
    CASE caller \in GuiCallers -> EffectStages \ {"glitch", "artifacts"}
      [] caller = "image_to_video" -> EffectStages
      [] caller = "enhanced_cli" -> {"motion_blur", "glitch", "artifacts"}
      [] OTHER -> {}

\* The transform arguments: process_video passes zoom and rotation only
CallerTransform(caller, t) ==
    IF caller = "legacy_cli"
    THEN [NeutralTransform EXCEPT !.zoom = t.zoom, !.rotation = t.rotation]
    ELSE t

\* The batch renderers call apply_effects only for a frame with some
\* parameter off its neutral value; the GUI calls it for every frame
CallerCalls(caller, t, on) ==
    \/ caller \in GuiCallers
    \/ CallerTransform(caller, t) # NeutralTransform
    \/ on # {}

CallerCall(caller, t, on, sel) ==
    [caller |-> caller,
     selection |-> sel,
     frame |-> MakeFrame(<<102>>),
     zoom |-> CallerTransform(caller, t).zoom,
     rotation |-> CallerTransform(caller, t).rotation,
     hue_shift |-> CallerTransform(caller, t).hue_shift,
     saturation |-> CallerTransform(caller, t).saturation,
     brightness |-> CallerTransform(caller, t).brightness,
     intensity |-> Enabled(on),
     effect_mode |-> CallerMode(caller),
     blend_mode |-> CallerBlend(caller, sel).blend_mode,
     layer_opacity |-> CallerBlend(caller, sel).layer_opacity]

InitCallers ==
    /\ \E caller \in Callers, t \in Transforms, sel \in BlendSelections :
          \E on \in {e \in SUBSET CallerStages(caller) :
                        Cardinality(e) <= 1 \/ e = CallerStages(caller)} :
              /\ CallerCalls(caller, t, on)
              /\ fx_call = CallerCall(caller, t, on, sel)
    /\ fx_pc = 0
    /\ fx_frame = fx_call.frame
    /\ fx_original = None
    /\ fx_trace = <<>>
    /\ fx_result = <<>>
    /\ IdleRenderer /\ IdleAnalyzer /\ IdleImage /\ IdleRun /\ IdleBand /\ IdleResample /\ IdleFolder /\ IdleSlider /\ IdleWebcam /\ IdleRace /\ IdleLoop

SpecCallers == InitCallers /\ [][NextEffects]_vars

\* apply_effects as a function of its arguments: the stages from pc on
RECURSIVE StagesFrom(_, _, _, _)
StagesFrom(c, pc, frame, original_transformed) ==
    IF pc > Len(StageOrder)
    THEN frame
    ELSE StagesFrom(c, pc + 1,
                    IF StageCalled(c, StageOrder[pc])
                    THEN StageApply(c, StageOrder[pc], frame, original_transformed)
                    ELSE frame,
                    original_transformed)

ApplyEffects(c) ==
    StagesFrom(c, 1, c.frame,
               IF c.effect_mode = "layer"
               THEN RotateFrame(ZoomFrame(c.frame, c.zoom), c.rotation)
               ELSE None)

\* The call the same caller makes for the same frame and parameters when
\* another blend mode and opacity are selected
WithSelection(c, sel) ==
    [c EXCEPT !.selection = sel,
              !.effect_mode = CallerMode(c.caller),
              !.blend_mode = CallerBlend(c.caller, sel).blend_mode,
              !.layer_opacity = CallerBlend(c.caller, sel).layer_opacity]

\* C25: every caller of apply_effects passes effect mode "direct"; whatever
\* blend mode and opacity are selected, the blending step is never executed
\* and the frame returned is the one returned for any other selection.
C25_CallersNeverBlend ==
    /\ fx_call.effect_mode = "direct"
    /\ \A n \in 1..Len(fx_trace) : fx_trace[n] # "blend"
    /\ Returned =>
          \A sel \in BlendSelections :
              fx_result = ApplyEffects(WithSelection(fx_call, sel))

\* A GUI call with a blend mode other than "direct" selected, opacity below
\* 1, an effect applied, has returned.
C25_Witness ==
    /\ Returned
    /\ fx_call.caller \in GuiCallers
    /\ fx_call.selection.blend_mode = "multiply"
    /\ fx_call.selection.layer_opacity = Rat(1, 2)
    /\ Len(fx_trace) > 3


\* ---------------------------------------------------------------------------
\* The webcam capture thread against the GUI thread
\* (_webcam_capture_loop, toggle_webcam_recording, stop_webcam)
\* ---------------------------------------------------------------------------
MaxRecordings == 1      \* recordings started in a session
MaxCount == 1           \* frame counts are followed up to this value

\* n + 1, as far as counts are followed
Bump(n) == IF n < MaxCount THEN n + 1 ELSE n

\* The capture thread has left _webcam_capture_loop: the loop condition was
\* false, read failed, or an exception ended the thread
CaptureStopped == wc_thread.pc \in {"exited", "raised"}

ThreadAt(pc) == wc_thread.pc = pc
ThreadTo(pc) == wc_thread' = [wc_thread EXCEPT !.pc = pc]
GuiAt(pc) == wc_gui.pc = pc
GuiTo(pc) == wc_gui' = [wc_gui EXCEPT !.pc = pc]

\* Mutation: the loop goes on as if the capture were open whatever
\* stop_webcam did to it.
CapStep_DeafToStop(pc, cap, ret) ==
    CASE pc = "while_cap" -> "while_opened"
      [] pc = "while_opened" -> "read"
      [] OTHER -> IF ret THEN "if_recording" ELSE "exited"

\* Where the capture thread goes from the statements that use
\* self.webcam_cap: the two halves of the while condition (AttributeError on
\* None in the second), and read(), which fails on a released capture
CapStep(pc, cap, ret) ==
    CASE pc = "while_cap" -> IF cap = "none" THEN "exited" ELSE "while_opened"
      [] pc = "while_opened" ->
           IF cap = "none" THEN "raised"
           ELSE IF cap = "released" THEN "exited" ELSE "read"
      [] OTHER ->
           IF cap = "none" THEN "raised"
           ELSE IF cap = "released" THEN "exited"
           ELSE IF ret THEN "if_recording" ELSE "exited"

\* start_webcam has returned: the capture is open, the thread is started
InitWebcam ==
    /\ webcam_cap = "open"
    /\ is_recording = FALSE
    /\ recording_writer = 0
    /\ recording_frame_count = 0
    /\ wc_writers = <<>>
    /\ wc_thread = [pc |-> "while_cap", writer |-> 0, count |-> 0]
    /\ wc_gui = [pc |-> "idle", in_stop_webcam |-> FALSE]
    /\ wc_hist = [dead_write |-> FALSE, late_frames |-> 0, merges |-> <<>>,
                  stop_called |-> FALSE, stop_returned |-> FALSE]
    /\ IdleRenderer /\ IdleEffects /\ IdleAnalyzer /\ IdleImage /\ IdleRun /\ IdleBand /\ IdleResample /\ IdleFolder /\ IdleSlider /\ IdleRace /\ IdleLoop

\* ---- the capture thread, one attribute read or call at a time ----

\* while self.webcam_cap ...
WhileCap ==
    /\ ThreadAt("while_cap")
    /\ ThreadTo(CapStep("while_cap", webcam_cap, TRUE))
    /\ UNCHANGED <<webcam_cap, is_recording, recording_writer, recording_frame_count,
                   wc_writers, wc_gui, wc_hist, exceptWebcam>>

\* ... and self.webcam_cap.isOpened(): AttributeError on None
WhileOpened ==
    /\ ThreadAt("while_opened")
    /\ ThreadTo(CapStep("while_opened", webcam_cap, TRUE))
    /\ UNCHANGED <<webcam_cap, is_recording, recording_writer, recording_frame_count,
                   wc_writers, wc_gui, wc_hist, exceptWebcam>>

\* ret, frame = self.webcam_cap.read(); if not ret: break; the effects and the
\* preview signal follow
CaptureRead ==
    /\ ThreadAt("read")
    /\ \E ret \in BOOLEAN : ThreadTo(CapStep("read", webcam_cap, ret))
    /\ UNCHANGED <<webcam_cap, is_recording, recording_writer, recording_frame_count,
                   wc_writers, wc_gui, wc_hist, exceptWebcam>>

\* if self.is_recording ...
IfRecording ==
    /\ ThreadAt("if_recording")
    /\ ThreadTo(IF is_recording THEN "if_writer" ELSE "while_cap")
    /\ UNCHANGED <<webcam_cap, is_recording, recording_writer, recording_frame_count,
                   wc_writers, wc_gui, wc_hist, exceptWebcam>>

\* ... and self.recording_writer:
IfWriter ==
    /\ ThreadAt("if_writer")
    /\ ThreadTo(IF recording_writer # 0 THEN "load_writer" ELSE "while_cap")
    /\ UNCHANGED <<webcam_cap, is_recording, recording_writer, recording_frame_count,
                   wc_writers, wc_gui, wc_hist, exceptWebcam>>

\* self.recording_writer.write: the attribute is read again; AttributeError
\* when it is None by now
LoadWriter ==
    /\ ThreadAt("load_writer")
    /\ wc_thread' = [wc_thread EXCEPT !.pc = IF recording_writer = 0
                                             THEN "raised" ELSE "call_write",
                                      !.writer = recording_writer]
    /\ wc_hist' = [wc_hist EXCEPT !.dead_write = @ \/ recording_writer = 0]
    /\ UNCHANGED <<webcam_cap, is_recording, recording_writer, recording_frame_count,
                   wc_writers, wc_gui, exceptWebcam>>

\* write(processed_frame) on the writer object read: a released writer
\* writes nothing
CallWrite ==
    /\ ThreadAt("call_write")
    /\ ThreadTo("count_load")
    /\ IF wc_writers[wc_thread.writer].state = "open"
       THEN /\ wc_writers' = [wc_writers EXCEPT ![wc_thread.writer].frames = Bump(@)]
            /\ wc_hist' = [wc_hist EXCEPT !.late_frames =
                              IF wc_hist.stop_returned THEN Bump(@) ELSE @]
       ELSE /\ wc_hist' = [wc_hist EXCEPT !.dead_write = TRUE]
            /\ UNCHANGED wc_writers
    /\ UNCHANGED <<webcam_cap, is_recording, recording_writer, recording_frame_count,
                   wc_gui, exceptWebcam>>

\* self.recording_frame_count += 1: the read ...
CountLoad ==
    /\ ThreadAt("count_load")
    /\ wc_thread' = [wc_thread EXCEPT !.pc = "count_store",
                                      !.count = recording_frame_count]
    /\ UNCHANGED <<webcam_cap, is_recording, recording_writer, recording_frame_count,
                   wc_writers, wc_gui, wc_hist, exceptWebcam>>

\* ... and the store; then the sleep and the next iteration
CountStore ==
    /\ ThreadAt("count_store")
    /\ recording_frame_count' = Bump(wc_thread.count)
    /\ ThreadTo("while_cap")
    /\ UNCHANGED <<webcam_cap, is_recording, recording_writer, wc_writers, wc_gui,
                   wc_hist, exceptWebcam>>

CaptureStep ==
    \/ WhileCap
    \/ WhileOpened
    \/ CaptureRead
    \/ IfRecording
    \/ IfWriter
    \/ LoadWriter
    \/ CallWrite
    \/ CountLoad
    \/ CountStore

\* ---- the GUI thread, one statement at a time ----

\* toggle_webcam_recording, not recording: self.recording_writer = cv2.VideoWriter(...)
StartWriter ==
    /\ GuiAt("idle") /\ ~is_recording /\ ~wc_hist.stop_called
    /\ Len(wc_writers) < MaxRecordings
    /\ wc_writers' = Append(wc_writers, [state |-> "open", frames |-> 0])
    /\ recording_writer' = Len(wc_writers) + 1
    /\ GuiTo("start_flag")
    /\ UNCHANGED <<webcam_cap, is_recording, recording_frame_count, wc_thread,
                   wc_hist, exceptWebcam>>

\* self.is_recording = True
StartFlag ==
    /\ GuiAt("start_flag")
    /\ is_recording' = TRUE
    /\ GuiTo("start_count")
    /\ UNCHANGED <<webcam_cap, recording_writer, recording_frame_count, wc_writers,
                   wc_thread, wc_hist, exceptWebcam>>

\* self.recording_frame_count = 0
StartCount ==
    /\ GuiAt("start_count")
    /\ recording_frame_count' = 0
    /\ GuiTo("idle")
    /\ UNCHANGED <<webcam_cap, is_recording, recording_writer, wc_writers, wc_thread,
                   wc_hist, exceptWebcam>>

\* toggle_webcam_recording, recording, from the button: self.is_recording = False
StopFlag ==
    /\ GuiAt("idle") /\ is_recording /\ ~wc_hist.stop_called
    /\ is_recording' = FALSE
    /\ wc_gui' = [pc |-> "stop_release", in_stop_webcam |-> FALSE]
    /\ UNCHANGED <<webcam_cap, recording_writer, recording_frame_count, wc_writers,
                   wc_thread, wc_hist, exceptWebcam>>

\* stop_webcam: if self.is_recording: self.toggle_webcam_recording(), whose
\* first statement is self.is_recording = False
StopWebcam ==
    /\ GuiAt("idle") /\ ~wc_hist.stop_called
    /\ wc_hist' = [wc_hist EXCEPT !.stop_called = TRUE]
    /\ is_recording' = FALSE
    /\ wc_gui' = [pc |-> IF is_recording THEN "stop_release" ELSE "cap_release",
                  in_stop_webcam |-> TRUE]
    /\ UNCHANGED <<webcam_cap, recording_writer, recording_frame_count, wc_writers,
                   wc_thread, exceptWebcam>>

\* if self.recording_writer: self.recording_writer.release()
StopRelease ==
    /\ GuiAt("stop_release")
    /\ IF recording_writer # 0
       THEN /\ wc_writers' = [wc_writers EXCEPT ![recording_writer].state = "released"]
            /\ GuiTo("stop_none")
       ELSE /\ GuiTo("stop_merge")
            /\ UNCHANGED wc_writers
    /\ UNCHANGED <<webcam_cap, is_recording, recording_writer, recording_frame_count,
                   wc_thread, wc_hist, exceptWebcam>>

\* self.recording_writer = None
StopNone ==
    /\ GuiAt("stop_none")
    /\ recording_writer' = 0
    /\ wc_hist' = [wc_hist EXCEPT !.merges =
                      Append(@, [writer |-> recording_writer, count |-> 0, frames |-> 0])]
    /\ GuiTo("stop_merge")
    /\ UNCHANGED <<webcam_cap, is_recording, recording_frame_count, wc_writers,
                   wc_thread, exceptWebcam>>

\* time.sleep(0.5); video_duration = self.recording_frame_count / self.fps; the
\* merge and the message box
StopMerge ==
    /\ GuiAt("stop_merge")
    /\ wc_hist' =
          [wc_hist EXCEPT !.merges =
              IF @ = <<>> THEN @
              ELSE [@ EXCEPT ![Len(@)] =
                       [writer |-> @.writer,
                        count |-> recording_frame_count,
                        frames |-> wc_writers[@.writer].frames]]]
    /\ GuiTo(IF wc_gui.in_stop_webcam THEN "cap_release" ELSE "idle")
    /\ UNCHANGED <<webcam_cap, is_recording, recording_writer, recording_frame_count,
                   wc_writers, wc_thread, exceptWebcam>>

\* stop_webcam: if self.webcam_cap: self.webcam_cap.release()
CapRelease ==
    /\ GuiAt("cap_release")
    /\ webcam_cap' = IF webcam_cap = "none" THEN "none" ELSE "released"
    /\ GuiTo("cap_none")
    /\ UNCHANGED <<is_recording, recording_writer, recording_frame_count, wc_writers,
                   wc_thread, wc_hist, exceptWebcam>>

\* self.webcam_cap = None
CapNone ==
    /\ GuiAt("cap_none")
    /\ webcam_cap' = "none"
    /\ GuiTo("writer_release")
    /\ UNCHANGED <<is_recording, recording_writer, recording_frame_count, wc_writers,
                   wc_thread, wc_hist, exceptWebcam>>

\* if self.recording_writer: release(); self.recording_writer = None; then
\* the preview is cleared and stop_webcam returns
WriterRelease ==
    /\ GuiAt("writer_release")
    /\ wc_writers' = IF recording_writer # 0
                     THEN [wc_writers EXCEPT ![recording_writer].state = "released"]
                     ELSE wc_writers
    /\ recording_writer' = 0
    /\ wc_hist' = [wc_hist EXCEPT !.stop_returned = TRUE]
    /\ GuiTo("returned")
    /\ UNCHANGED <<webcam_cap, is_recording, recording_frame_count, wc_thread,
                   exceptWebcam>>

GuiStep ==
    \/ StartWriter
    \/ StartFlag
    \/ StartCount
    \/ StopFlag
    \/ StopWebcam
    \/ StopRelease
    \/ StopNone
    \/ StopMerge
    \/ CapRelease
    \/ CapNone
    \/ WriterRelease

NextWebcam ==
    \/ CaptureStep
    \/ GuiStep

SpecWebcam == InitWebcam /\ [][NextWebcam]_vars

\* C26: under every interleaving of the capture thread with the GUI thread's
\* start/stop-recording toggle the capture thread never calls write on a
\* recording writer that is released or None, and the recorded frame count
\* equals the number of frames written to the writer.
C26_WriterAliveAndCountExact ==
    /\ ~wc_hist.dead_write
    /\ \A n \in 1..Len(wc_hist.merges) :
          wc_hist.merges[n].count = wc_hist.merges[n].frames


\* The capture thread is scheduled again and again, and a handler the GUI
\* thread has entered runs to its end; nothing makes the user press a button.
SpecWebcamFair ==
    /\ SpecWebcam
    /\ WF_vars(CaptureStep)
    /\ WF_vars(GuiStep /\ ~GuiAt("idle"))

MaxAnalyses == 2        \* analysis threads started in a session
MaxComputations == 1    \* parameter computations followed
MaxSpectrogramFrames == 2   \* spectrogram frames of the longest audio

\* A value of one of the four fields: the analysis run it came from (0: the
\* None of __init__), the length of a curve or time axis, the frame indices
\* of an onset array
FieldValue(run, len, idx) == [run |-> run, len |-> len, idx |-> idx]
NoneValue == FieldValue(0, 0, {})
Unread == FieldValue(-1, 0, {})

Fields == {"energy_curves", "frame_times", "bass_beat_frames", "snare_hit_frames"}

\* The statements of an analysis thread that store its results, in order:
\* self.energy_curves, self.frame_times = ...; self.bass_beat_frames = ...;
\* self.snare_hit_frames = ...
StoreOrder == <<"energy_curves", "frame_times", "bass_beat_frames", "snare_hit_frames">>

\* What run k stores in a field
Stored(k, field) ==
    CASE field \in {"energy_curves", "frame_times"} -> FieldValue(k, ar_runs[k].len, {})
      [] field = "bass_beat_frames" -> FieldValue(k, 0, ar_runs[k].beats)
      [] OTHER -> FieldValue(k, 0, ar_runs[k].snares)

InitRace ==
    /\ ar_self = [f \in Fields |-> NoneValue]
    /\ ar_runs = <<>>
    /\ ar_reader = [pc |-> "idle",
                    reads |-> [f \in {"curves", "times", "beat_times", "beats",
                                      "snare_times", "snares"} |-> Unread]]
    /\ ar_log = <<>>
    /\ IdleRenderer /\ IdleEffects /\ IdleAnalyzer /\ IdleImage /\ IdleRun /\ IdleBand /\ IdleResample /\ IdleFolder /\ IdleSlider /\ IdleWebcam /\ IdleLoop

\* load_video, load_image, load_folder, load_audio:
\* threading.Thread(target=self.analyze_audio...).start(); the thread analyses
\* its audio with its own AudioAnalyzer
StartAnalysis ==
    /\ Len(ar_runs) < MaxAnalyses
    /\ \E len \in 1..MaxSpectrogramFrames :
          \E beats \in {{}, {len - 1}} :
              ar_runs' = Append(ar_runs, [len |-> len, beats |-> beats,
                                          snares |-> {0}, pc |-> 1])
    /\ UNCHANGED <<ar_self, ar_reader, ar_log, exceptRace>>

\* One store of an analysis thread
AnalysisStore(k) ==
    /\ k \in 1..Len(ar_runs)
    /\ ar_runs[k].pc <= Len(StoreOrder)
    /\ ar_self' = [ar_self EXCEPT ![StoreOrder[ar_runs[k].pc]] =
                                      Stored(k, StoreOrder[ar_runs[k].pc])]
    /\ ar_runs' = [ar_runs EXCEPT ![k].pc = @ + 1]
    /\ UNCHANGED <<ar_reader, ar_log, exceptRace>>

\* The reads of get_effect_parameters, in order, and where each goes next
ReadField(pc) ==
    CASE pc \in {"curves", "curves_used"} -> "energy_curves"
      [] pc \in {"times", "times_used", "beat_times", "snare_times"} -> "frame_times"
      [] pc \in {"beat_test", "beats"} -> "bass_beat_frames"
      [] OTHER -> "snare_hit_frames"

\* if not self.energy_curves or self.frame_times is None or len(...) == 0:
\* the defaults, else np.interp over self.frame_times and self.energy_curves;
\* if self.bass_beat_frames is not None and len(...) > 0: 
\* self.frame_times[self.bass_beat_frames]; the same for the snare hits
NextRead(pc, v) ==
    CASE pc = "curves" -> IF v.run = 0 THEN "beat_test" ELSE "times"
      [] pc = "times" -> IF v.run = 0 \/ v.len = 0 THEN "beat_test" ELSE "times_used"
      [] pc = "times_used" -> "curves_used"
      [] pc = "curves_used" -> "beat_test"
      [] pc = "beat_test" -> IF v.run = 0 \/ v.idx = {} THEN "snare_test" ELSE "beat_times"
      [] pc = "beat_times" -> "beats"
      [] pc = "beats" -> "snare_test"
      [] pc = "snare_test" -> IF v.run = 0 \/ v.idx = {} THEN "done" ELSE "snare_times"
      [] pc = "snare_times" -> "snares"
      [] OTHER -> "done"

\* The value a read leaves for the computation to use
Keep(reads, pc, v) ==
    CASE pc = "times_used" -> [reads EXCEPT !.times = v]
      [] pc = "curves_used" -> [reads EXCEPT !.curves = v]
      [] pc = "beat_times" -> [reads EXCEPT !.beat_times = v]
      [] pc = "beats" -> [reads EXCEPT !.beats = v]
      [] pc = "snare_times" -> [reads EXCEPT !.snare_times = v]
      [] pc = "snares" -> [reads EXCEPT !.snares = v]
      [] OTHER -> reads

\* update_preview, a render thread or the webcam thread enters
\* get_effect_parameters
ComputeStart ==
    /\ ar_reader.pc = "idle"
    /\ Len(ar_log) < MaxComputations
    /\ ar_reader' = [pc |-> "curves",
                     reads |-> [f \in DOMAIN ar_reader.reads |-> Unread]]
    /\ UNCHANGED <<ar_self, ar_runs, ar_log, exceptRace>>

\* One read of a field of self
ComputeRead ==
    /\ ar_reader.pc \notin {"idle", "done"}
    /\ ar_reader' =
          [pc |-> NextRead(ar_reader.pc, ar_self[ReadField(ar_reader.pc)]),
           reads |-> Keep(ar_reader.reads, ar_reader.pc,
                          ar_self[ReadField(ar_reader.pc)])]
    /\ UNCHANGED <<ar_self, ar_runs, ar_log, exceptRace>>

\* The parameters are computed from the values read
ComputeEnd ==
    /\ ar_reader.pc = "done"
    /\ ar_log' = Append(ar_log, ar_reader.reads)
    /\ ar_reader' = [ar_reader EXCEPT !.pc = "idle"]
    /\ UNCHANGED <<ar_self, ar_runs, exceptRace>>

NextRace ==
    \/ StartAnalysis
    \/ \E k \in 1..MaxAnalyses : AnalysisStore(k)
    \/ ComputeStart
    \/ ComputeRead
    \/ ComputeEnd

SpecRace == InitRace /\ [][NextRace]_vars

\* The runs the values of one computation came from
RunsRead(reads) == {reads[f].run : f \in DOMAIN reads} \ {-1}

\* Every onset index read is an index into the time axis read with it
OnsetsIndexAxis(reads) ==
    /\ \A i \in reads.beats.idx : i < reads.beat_times.len
    /\ \A i \in reads.snares.idx : i < reads.snare_times.len

\* C27: under every interleaving of the analysis threads with each other and
\* with a parameter computation, the energy curves, the frame-time axis and
\* the bass-beat and snare-hit indices one computation reads come from the
\* same analysis run, so every onset index read is a valid index into the
\* frame-time axis read with it.
C27_OneComputationReadsOneRun ==
    \A n \in 1..Len(ar_log) :
        /\ Cardinality(RunsRead(ar_log[n])) <= 1
        /\ OnsetsIndexAxis(ar_log[n])


\* ---------------------------------------------------------------------------
\* Beat-triggered zoom without beats (SpecBatch, and the GUI's formula)
\* ---------------------------------------------------------------------------

\* The least zoom the continuous formula gives: 1 + (zoomFactor - 1) * (1 - s)
ZoomFloor(zoom_factor, sens) ==
    RAdd(One, RMul(RSub(zoom_factor, One), RSub(One, sens)))

\* The continuous formula of the batch renderers for the frame just computed
LastContinuousZoom ==
    RAdd(One,
         RMul(RSub(call.zoom_factor, One),
              RAdd(RSub(One, call.intensity_sensitivity),
                   RMul(call.intensity_sensitivity,
                        WeightedPair(frame_in.sub_bass, call.sub_bass_zoom,
                                     frame_in.bass, call.bass_zoom)))))

\* What the GUI's computation gives for the bands of the frame just computed
\* when no beat was detected (its zoom is always beat-triggered)
LastGuiZoom == GuiZoomWithin(frame_in, {}, Zero, call.intensity_sensitivity)

\* C28: with beat-triggered zoom enabled and no bass beat detected, every
\* frame's zoom comes from the continuous formula: it is at least
\* 1 + (zoomFactor - 1) * (1 - sensitivity), and above 1.0 whenever
\* zoomFactor > 1 and sensitivity < 1, even with every band at 0.
C28_NoBeatsMeansContinuousZoom ==
    /\ (FrameDone /\ call.beat_triggered_zoom /\ bass_beat_frames = {}) =>
          /\ frame_params.zoom = LastContinuousZoom
          /\ RLe(ZoomFloor(call.zoom_factor, call.intensity_sensitivity),
                 frame_params.zoom)
          /\ (RLt(One, call.zoom_factor) /\ RLt(call.intensity_sensitivity, One)) =>
                RLt(One, frame_params.zoom)
    /\ FrameDone =>
          /\ RLe(ZoomFloor(ZoomSlider, call.intensity_sensitivity), LastGuiZoom)
          /\ RLt(call.intensity_sensitivity, One) => RLt(One, LastGuiZoom)

\* A frame of a silent audio computed with beat-triggered zoom on, no beat
\* detected, zoom factor above 1 and sensitivity below 1: it zooms.
C28_Witness ==
    /\ FrameDone /\ call.beat_triggered_zoom /\ bass_beat_frames = {}
    /\ interp = SilentCurves
    /\ frame_idx >= 2
    /\ RLt(One, call.zoom_factor)
    /\ RLt(call.intensity_sensitivity, One)
    /\ RLt(One, frame_params.zoom)


\* ---------------------------------------------------------------------------
\* The video render loops and the length of the resampled curves
\* (process_video_enhanced, _process_video_with_progress)
\* ---------------------------------------------------------------------------
MaxReported == 3        \* frame count the video metadata reports
MaxDelivered == 4       \* frames the reader delivers before read() fails

\* total_frames = int(cap.get(cv2.CAP_PROP_FRAME_COUNT)); the number of frames
\* cap.read() returns before ret is False is the file's own
InitLoop ==
    /\ vl_video \in [renderer : {"video_enhanced", "gui_render"},
                     total_frames : 0..MaxReported,
                     delivered : 0..MaxDelivered]
    /\ vl_loop = [pc |-> "setup", frame_idx |-> 0, curve_len |-> 0]
    /\ vl_reads = <<>>
    /\ IdleRenderer /\ IdleEffects /\ IdleAnalyzer /\ IdleImage /\ IdleRun /\ IdleBand /\ IdleResample /\ IdleFolder /\ IdleSlider /\ IdleWebcam /\ IdleRace

\* Before the loop: the GUI raises on total_frames == 0; the curves are
\* resampled at np.linspace(0, duration, total_frames), total_frames entries
LoopSetup ==
    /\ vl_loop.pc = "setup"
    /\ vl_loop' =
          IF vl_video.renderer = "gui_render" /\ vl_video.total_frames = 0
          THEN [vl_loop EXCEPT !.pc = "no_frames"]
          ELSE [vl_loop EXCEPT !.pc = "loop", !.curve_len = vl_video.total_frames]
    /\ UNCHANGED <<vl_video, vl_reads, exceptLoop>>

\* ret, frame = cap.read(); if not ret: break
LoopEnd ==
    /\ vl_loop.pc = "loop"
    /\ vl_loop.frame_idx >= vl_video.delivered
    /\ vl_loop' = [vl_loop EXCEPT !.pc = "released"]
    /\ UNCHANGED <<vl_video, vl_reads, exceptLoop>>

\* A frame was read: sub_bass_val = sub_bass_interp[frame_idx], ...; the
\* frame is processed and written; frame_idx += 1.  An index from the curve
\* length on raises IndexError
LoopFrame ==
    /\ vl_loop.pc = "loop"
    /\ vl_loop.frame_idx < vl_video.delivered
    /\ vl_reads' = Append(vl_reads,
                          [frame_idx |-> vl_loop.frame_idx,
                           curve_len |-> vl_loop.curve_len,
                           raised |-> vl_loop.frame_idx >= vl_loop.curve_len])
    /\ vl_loop' = IF vl_loop.frame_idx < vl_loop.curve_len
                  THEN [vl_loop EXCEPT !.frame_idx = @ + 1]
                  ELSE [vl_loop EXCEPT !.pc = "index_error"]
    /\ UNCHANGED <<vl_video, exceptLoop>>

NextLoop ==
    \/ LoopSetup
    \/ LoopEnd
    \/ LoopFrame

SpecLoop == InitLoop /\ [][NextLoop]_vars

\* C29: in the video render loops, for every frame the reader delivers, the
\* index used to read the resampled band curves is smaller than their length
\* (the frame count of the metadata), however many frames the reader delivers.
C29_IndexWithinResampledCurves ==
    \A n \in 1..Len(vl_reads) :
        /\ vl_reads[n].curve_len = vl_video.total_frames
        /\ vl_reads[n].frame_idx < vl_reads[n].curve_len

====
